---- MODULE Spec2Model ----
(***************************************************************************)
(* DeDupeLab: the applier (src/applier.py), the unique-destination rule    *)
(* (src/dedupelab/planner.py) and rollback (src/dedupelab/rollback.py) as  *)
(* a state machine over a small filesystem.                                *)
(*                                                                         *)
(* A path is a record [dir, name]: dir is the sequence of directory        *)
(* components, name is the file name split at its dots into segments, each *)
(* segment a text with the " (i)" marks the uniqueness rule appended to    *)
(* it.  "f (1).txt.tmp" is <<Seg("f",<<1>>), Seg("txt",<<>>),              *)
(* Seg("tmp",<<>>)>>.  A file's content is a byte sequence; SHA-256 is     *)
(* taken to be collision free, so two hashes agree iff the contents do.    *)
(***************************************************************************)
EXTENDS Integers, Sequences, FiniteSets, TLC

VARIABLES
    files,        \* the regular files on disk: path -> content
    dirs,         \* the directories on disk
    rows,         \* the plan rows handed to apply_moves
    dry_run,      \* apply_moves' dry_run argument
    pc,           \* position of the apply process
    idx,          \* index of the row the for-loop is at
    src,          \* apply_moves' local src
    dst,          \* apply_moves' local dst (after the conflict handling)
    size,         \* copy_verify_delete's local size
    applied,      \* apply_moves' local list applied
    attempted, skipped, errors, bytes_moved,   \* apply_moves' counters
    checkpoint,   \* the checkpoint file: <<>> when absent, else <<manifest>>
    rb_pc,        \* position of the rollback process
    rb_moves,     \* rollback's local moves (the manifest's list)
    rb_i,         \* index in moves of the entry rollback is at (reversed walk)
    restored, rb_errors,                       \* rollback's counters
    \* history variables, read by the properties only
    files0, dirs0,   \* the filesystem when apply_moves was called
    outcome,         \* per row: "pending", "ignored", "skipped", "dry", "error", "succeeded"
    used_dst,        \* per row: the dst the row's move used (NoPath before)
    applied_row,     \* per entry of applied: the index of its row
    warned,          \* rows for which the source-deletion warning was printed
    content0,        \* content of src when the current move started
    stopped_at,      \* the pc at which the process was interrupted or killed
    files_cp,        \* the filesystem when rollback read the checkpoint
    env_changed,     \* a file was created from outside between apply and rollback
    rb_log,          \* per processed rollback entry: what happened to it
    \* the Store (src/db.py)
    store,        \* the database file: its tables, columns, indexes and rows
    db_pc,        \* position of DB.__init__: "closed", "migrate", "record", "open", "failed"
    current,      \* _migrate's local current
    version,      \* _migrate's loop variable
    mig_log,      \* history: the migrations executed by the current open, in order
    store0,       \* history: the database file when the open in progress began
    last_rec,     \* history: per path, the last record upsert_files was given
    \* cmd_plan (src/cli.py)
    plan_runs,    \* history: per run of cmd_plan, the plan it wrote and when
    now,          \* the clock, in seconds
    \* the rollback keys of a plan (cmd_plan's counter)
    rbk,          \* cmd_plan's local rbk
    rbk0,         \* history: rbk when the observation began
    plan_keys,    \* history: the rollback keys written since then
    \* threaded_hash (src/scanner.py)
    scan_pc,      \* position of cmd_scan: "idle", "hashing", "done", "stored"
    futs,         \* the files whose job has not been collected yet
    hashed,       \* the files whose job a worker thread has completed
    results,      \* threaded_hash's local results
    dropped,      \* history: the files whose processing raised
    total,        \* len(files)
    \* cmd_verify (src/cli.py)
    vf,           \* <<>>, or <<what cmd_verify printed and returned>>
    \* the applier of src/dedupelab/applier.py
    fast,         \* <<>>, or <<what its apply_moves left and returned>>
    \* a second run of apply on the same plan
    prev,         \* history: <<>>, or <<what the earlier run of apply_moves did>>
    \* scan, plan and apply run one after the other, twice
    pipe          \* <<>>, or <<the command to run next, the run, and history>>

storeVars == <<store, db_pc, current, version, mig_log, store0, last_rec>>

planVars == <<plan_runs, now>>

keyVars == <<rbk, rbk0, plan_keys>>

scanVars == <<scan_pc, futs, hashed, results, dropped, total>>

verifyVars == <<vf>>

fastVars == <<fast>>

rerunVars == <<prev>>

pipeVars == <<pipe>>

\* The variables of the components other than the applier and rollback.
otherVars == <<storeVars, planVars, keyVars, scanVars, verifyVars, fastVars, rerunVars, pipeVars>>

applierVars == <<files, dirs, rows, dry_run, pc, idx, src, dst, size, applied,
                 attempted, skipped, errors, bytes_moved, checkpoint,
                 rb_pc, rb_moves, rb_i, restored, rb_errors,
                 files0, dirs0, outcome, used_dst, applied_row, warned, content0,
                 stopped_at, files_cp, env_changed, rb_log>>

\* What the actions of each of the other components leave as it is.
exceptStore  == <<applierVars, planVars, keyVars, scanVars, verifyVars, fastVars, rerunVars, pipeVars>>
exceptPlan   == <<applierVars, storeVars, keyVars, scanVars, verifyVars, fastVars, rerunVars, pipeVars>>
exceptKeys   == <<applierVars, storeVars, planVars, scanVars, verifyVars, fastVars, rerunVars, pipeVars>>
exceptScan   == <<applierVars, storeVars, planVars, keyVars, verifyVars, fastVars, rerunVars, pipeVars>>
exceptVerify == <<applierVars, storeVars, planVars, keyVars, scanVars, fastVars, rerunVars, pipeVars>>
exceptFast   == <<applierVars, storeVars, planVars, keyVars, scanVars, verifyVars, rerunVars, pipeVars>>

vars == <<files, dirs, rows, dry_run, pc, idx, src, dst, size, applied,
          attempted, skipped, errors, bytes_moved, checkpoint,
          rb_pc, rb_moves, rb_i, restored, rb_errors,
          files0, dirs0, outcome, used_dst, applied_row, warned, content0,
          stopped_at, files_cp, env_changed, rb_log, otherVars>>

(***************************************************************************)
(* Bounds and the universe of inputs                                       *)
(***************************************************************************)
\* Longest plan handed to apply_moves.
MaxRows == 2

Seg(s, u) == [s |-> s, u |-> u]
MkPath(d, n) == [dir |-> d, name |-> n]

\* The value of a path variable that holds no path.
NoPath == MkPath(<<>>, <<>>)

Root == <<"r">>
Quarantine == <<"r", ".deduplab_duplicates">>
CheckpointDir == <<"output">>

P_f    == MkPath(Root, <<Seg("f", <<>>), Seg("txt", <<>>)>>)
P_ftmp == MkPath(Root, <<Seg("f", <<>>), Seg("txt", <<>>), Seg("tmp", <<>>)>>)
Q_f    == MkPath(Quarantine, <<Seg("f", <<>>), Seg("txt", <<>>)>>)
Q_ftmp == MkPath(Quarantine, <<Seg("f", <<>>), Seg("txt", <<>>), Seg("tmp", <<>>)>>)

\* File contents a scanned tree may hold (byte strings).
Contents == {<<1>>, <<2, 2>>}
EmptyContent == <<>>

\* Paths that may hold a file before the run: two files of the scanned
\* directory and two files already in its quarantine directory, one of each
\* with a name that ends in .tmp.
InitPaths == {P_f, P_ftmp, Q_f, Q_ftmp}

PlanRow(status, op, s, d) ==
    [status |-> status, op |-> op, src_path |-> s, dst_path |-> d]

\* The rows plans are made of: the rows cmd_plan writes for r/f.txt and
\* r/f.txt.tmp (src -> the quarantine directory of src), two rows of a
\* hand-written plan (dst = src, and src = dst + ".tmp"), and a row that is
\* not a planned move.
RowUniverse ==
    { PlanRow("planned", "move", P_f, Q_f),
      PlanRow("planned", "move", P_ftmp, Q_ftmp),
      PlanRow("planned", "move", P_f, P_f),
      PlanRow("planned", "move", P_ftmp, P_f),
      PlanRow("applied", "move", P_f, Q_f) }

RECURSIVE SeqsUpTo(_, _)
SeqsUpTo(S, n) ==
    IF n = 0 THEN {<<>>}
    ELSE LET shorter == SeqsUpTo(S, n - 1)
         IN shorter \cup {Append(q, x) : q \in {t \in shorter : Len(t) = n - 1}, x \in S}

Plans == SeqsUpTo(RowUniverse, MaxRows)

(***************************************************************************)
(* Filesystem primitives                                                   *)
(***************************************************************************)
Exists(fs, p) == p \in DOMAIN fs

WriteFile(fs, p, c) == [q \in (DOMAIN fs) \cup {p} |-> IF q = p THEN c ELSE fs[q]]

Unlink(fs, p) == [q \in (DOMAIN fs) \ {p} |-> fs[q]]

\* os.rename: the file at a moves to b, replacing a file at b.
Rename(fs, a, b) ==
    IF a = b THEN fs
    ELSE [q \in ((DOMAIN fs) \ {a}) \cup {b} |-> IF q = b THEN fs[a] ELSE fs[q]]

\* Path.mkdir(parents=True, exist_ok=True)
Mkdirs(ds, d) == ds \cup {SubSeq(d, 1, k) : k \in 1..Len(d)}

\* Path.stat().st_size
SizeOf(c) == Len(c)

(***************************************************************************)
(* planner.ensure_unique and the applier's temp name                       *)
(***************************************************************************)
\* parent / f"{stem} ({i}){suf}": the mark goes at the end of the stem, which
\* is the name without its last suffix (the whole name when it has no dot).
Candidate(p, i) ==
    LET n == p.name
        k == IF Len(n) = 1 THEN 1 ELSE Len(n) - 1
    IN MkPath(p.dir, [n EXCEPT ![k] = Seg(n[k].s, Append(n[k].u, i))])

\* Mutant of ensure_unique: the first candidate is taken unseen.
ensure_unique_FirstCandidate(d, fs) == IF ~Exists(fs, d) THEN d ELSE Candidate(d, 1)

\* Mutant of ensure_unique: the path is returned as it is.
ensure_unique_AsIs(d, fs) == d

ensure_unique(d, fs) ==
    IF ~Exists(fs, d) THEN d
    ELSE LET i == CHOOSE i \in 1..(Cardinality(DOMAIN fs) + 1) :
                      /\ ~Exists(fs, Candidate(d, i))
                      /\ \A j \in 1..(i - 1) : Exists(fs, Candidate(d, j))
         IN Candidate(d, i)

\* dst.with_suffix(dst.suffix + '.tmp'): the name with ".tmp" appended.
DstTmp(d) == MkPath(d.dir, Append(d.name, Seg("tmp", <<>>)))

\* src_hash != dst_hash, for a collision-free hash of the two files' bytes.
HashMismatch(fs, a, b) == fs[a] # fs[b]

\* Every directory that holds a file exists.
DirsOf(fs) == UNION {Mkdirs({}, p.dir) : p \in DOMAIN fs}

(***************************************************************************)
(* The applier and rollback at rest, for the behaviours of the other       *)
(* components: apply_moves has not been called.                            *)
(***************************************************************************)
ApplierIdle(fs, cp) ==
    /\ files = fs
    /\ dirs = Mkdirs({}, Root) \cup DirsOf(fs)
    /\ rows = <<>>
    /\ dry_run = TRUE
    /\ pc = "idle"
    /\ idx = 1
    /\ src = NoPath /\ dst = NoPath /\ size = 0 /\ content0 = EmptyContent
    /\ applied = <<>>
    /\ attempted = 0 /\ skipped = 0 /\ errors = 0 /\ bytes_moved = 0
    /\ checkpoint = cp
    /\ rb_pc = "idle" /\ rb_moves = <<>> /\ rb_i = 0
    /\ restored = 0 /\ rb_errors = 0
    /\ files0 = fs /\ dirs0 = dirs
    /\ outcome = <<>>
    /\ used_dst = <<>>
    /\ applied_row = <<>>
    /\ warned = {}
    /\ stopped_at = "none"
    /\ files_cp = fs
    /\ env_changed = FALSE
    /\ rb_log = <<>>

(***************************************************************************)
(* Text values.  A Python str or an SQLite TEXT value is a sequence of     *)
(* tokens: "r/f (1).txt" is <<"r", "/", "f", " (1)", ".", "txt">>.  Codes  *)
(* gives each token its characters' code points, which is what sorted()    *)
(* and SQLite's BINARY collation compare.                                  *)
(***************************************************************************)
Codes ==
    ("/" :> <<47>>)
    @@ ("." :> <<46>>)
    @@ ("|" :> <<124>>)
    @@ (" (1)" :> <<32, 40, 49, 41>>)
    @@ (" (2)" :> <<32, 40, 50, 41>>)
    @@ (" (3)" :> <<32, 40, 51, 41>>)
    @@ ("r" :> <<114>>)
    @@ ("a" :> <<97>>)
    @@ ("c" :> <<99>>)
    @@ ("d" :> <<100>>)
    @@ ("f" :> <<102>>)
    @@ ("txt" :> <<116, 120, 116>>)
    @@ ("h0" :> <<104, 48>>)
    @@ ("h1" :> <<104, 49>>)
    @@ ("h2" :> <<104, 50>>)
    @@ ("archived" :> <<97, 114, 99, 104, 105, 118, 101, 100>>)
    @@ ("unarchived" :> <<117, 110, 97, 114, 99, 104, 105, 118, 101, 100>>)
    @@ ("_" :> <<95>>)
    @@ ("b" :> <<98>>)
    @@ ("zip" :> <<122, 105, 112>>)
    @@ ("7z" :> <<55, 122>>)
    @@ ("tar" :> <<116, 97, 114>>)
    @@ ("gz" :> <<103, 122>>)
    @@ ("bz2" :> <<98, 122, 50>>)
    @@ ("xz" :> <<120, 122>>)
    @@ ("rar" :> <<114, 97, 114>>)
    @@ ("tgz" :> <<116, 103, 122>>)
    @@ ("tbz2" :> <<116, 98, 122, 50>>)
    @@ ("extracted" :> <<101, 120, 116, 114, 97, 99, 116, 101, 100>>)
    @@ ("unzipped" :> <<117, 110, 122, 105, 112, 112, 101, 100>>)
    @@ ("unpacked" :> <<117, 110, 112, 97, 99, 107, 101, 100>>)
    @@ ("decompressed" :> <<100, 101, 99, 111, 109, 112, 114, 101, 115, 115, 101, 100>>)
    @@ ("unrar" :> <<117, 110, 114, 97, 114>>)
    @@ ("untar" :> <<117, 110, 116, 97, 114>>)
    @@ ("Extracted" :> <<69, 120, 116, 114, 97, 99, 116, 101, 100>>)
    @@ ("backup" :> <<98, 97, 99, 107, 117, 112>>)
    @@ ("photos_zip" :> <<112, 104, 111, 116, 111, 115, 95, 122, 105, 112>>)
    @@ (".git" :> <<46, 103, 105, 116>>)
    @@ ("node_modules" :> <<110, 111, 100, 101, 95, 109, 111, 100, 117, 108, 101, 115>>)
    @@ ("__pycache__" :> <<95, 95, 112, 121, 99, 97, 99, 104, 101, 95, 95>>)
    @@ ("meta" :> <<109, 101, 116, 97>>)
    @@ ("json" :> <<106, 115, 111, 110>>)
    @@ ("tmp" :> <<116, 109, 112>>)
    @@ (".deduplab_duplicates" :> <<46, 100, 101, 100, 117, 112, 108, 97, 98, 95, 100, 117, 112, 108, 105, 99, 97, 116, 101, 115>>)

RECURSIVE Flat(_)
Flat(s) == IF s = <<>> THEN <<>> ELSE Codes[Head(s)] \o Flat(Tail(s))

\* a < b for two sequences of code points.
CodesLess(a, b) ==
    \E k \in 1..Len(b) :
       /\ \A j \in 1..(k - 1) : j <= Len(a) /\ a[j] = b[j]
       /\ (k > Len(a) \/ a[k] < b[k])

\* a < b for two str / TEXT values.
StrLess(a, b) == CodesLess(Flat(a), Flat(b))

\* sep.join(parts), for a list of strs.
RECURSIVE Join(_, _)
Join(parts, sep) ==
    IF parts = <<>> THEN <<>>
    ELSE IF Len(parts) = 1 THEN parts[1]
    ELSE parts[1] \o <<sep>> \o Join(Tail(parts), sep)

\* s.split(sep): the pieces of s between the occurrences of sep.
RECURSIVE Split(_, _)
Split(s, sep) ==
    IF \A k \in 1..Len(s) : s[k] # sep THEN <<s>>
    ELSE LET k == CHOOSE k \in 1..Len(s) : s[k] = sep /\ \A j \in 1..(k - 1) : s[j] # sep
         IN <<SubSeq(s, 1, k - 1)>> \o Split(SubSeq(s, k + 1, Len(s)), sep)

(***************************************************************************)
(* The Store (src/db.py).  The database file is a record: its tables, the  *)
(* columns and indexes of table files, the rows of files in rowid order    *)
(* (a row is a function from column names to values) and the rows of       *)
(* schema_version (their version numbers).                                 *)
(***************************************************************************)
\* Records in one call of upsert_files.
MaxBatch == 2

S_a  == <<"r", "/", "a", ".", "txt">>
S_f  == <<"r", "/", "f", ".", "txt">>
S_f1 == <<"r", "/", "f", " (1)", ".", "txt">>

StorePaths == {S_a, S_f, S_f1}
Shas == {<<"h1">>, <<"h2">>}
ContextTags == {<<"archived">>, <<"unarchived">>}

DefaultMime == <<"application/octet-stream">>
DefaultContextTag == <<"unarchived">>

\* A database file that does not exist yet: sqlite3.connect creates it empty.
EmptyDb == [tables |-> {}, columns |-> {}, indexes |-> {}, rows |-> <<>>,
            schema_version |-> <<>>]

BaseColumns == {"path", "size", "mtime", "sha256"}

\* A row of the version-0 table.
V0Row(path, sha) == [path |-> path, size |-> 1, mtime |-> 1, sha256 |-> sha]

\* A version-0 store holding the given rows.
V0Store(rs) == [tables |-> {"files", "runs"}, columns |-> BaseColumns,
                indexes |-> {"idx_sha"}, rows |-> rs, schema_version |-> <<>>]

\* The stores a first open may find: no file, or a version-0 store with up
\* to two records.
InitialStores ==
    {EmptyDb, V0Store(<<>>)}
    \cup {V0Store(<<V0Row(p, <<"h1">>)>>) : p \in {S_a, S_f}}
    \cup {V0Store(<<V0Row(pq[1], <<"h1">>), V0Row(pq[2], <<"h1">>)>>) :
              pq \in {<<S_a, S_f>>, <<S_f, S_a>>}}

\* executescript(BASE_SCHEMA): every statement is IF NOT EXISTS.
BASE_SCHEMA(st) ==
    [st EXCEPT !.tables  = @ \cup {"files", "runs"},
               !.columns = IF "files" \in st.tables THEN @ ELSE BaseColumns,
               !.indexes = @ \cup {"idx_sha"}]

RECURSIVE MaxOf(_)
MaxOf(q) == IF Len(q) = 1 THEN q[1]
            ELSE LET m == MaxOf(Tail(q)) IN IF q[1] > m THEN q[1] ELSE m

\* SELECT MAX(version) FROM schema_version; 0 when the table does not exist
\* or is empty.
get_schema_version(st) ==
    IF "schema_version" \notin st.tables \/ st.schema_version = <<>> THEN 0
    ELSE MaxOf(st.schema_version)

\* The highest key of MIGRATIONS.
LastMigration == 4

\* ALTER TABLE files ADD COLUMN col DEFAULT dflt: the rows that are there
\* read the default.
AddColumn(st, col, dflt) ==
    [st EXCEPT !.columns = @ \cup {col},
               !.rows = [i \in DOMAIN st.rows |-> (col :> dflt) @@ st.rows[i]]]

\* MIGRATIONS[v] raises sqlite3.OperationalError: ADD COLUMN of a column the
\* table has (migrations 3 and 4 are IF NOT EXISTS).
MigrationRaises(v, st) ==
    \/ v = 1 /\ "mime" \in st.columns
    \/ v = 2 /\ "context_tag" \in st.columns

\* executescript(MIGRATIONS[v])
MIGRATIONS(v, st) ==
    CASE v = 1 -> AddColumn(st, "mime", DefaultMime)
      [] v = 2 -> AddColumn(st, "context_tag", DefaultContextTag)
      [] v = 3 -> [st EXCEPT !.indexes = @ \cup {"idx_files_hash_ctx"}]
      [] v = 4 -> [st EXCEPT !.tables = @ \cup {"schema_version"}]

\* Mutant of RecordMigration: every migration is recorded once the
\* version table exists, the earlier ones with it.
RecordMigration_Backfill(v, st) ==
    IF v >= 4 THEN [st EXCEPT !.schema_version = @ \o [k \in 1..v |-> k]] ELSE st

\* if version >= 4: INSERT INTO schema_version (version, ...)
RecordMigration(v, st) ==
    IF v >= 4 THEN [st EXCEPT !.schema_version = Append(@, v)] ELSE st

\* A record as upsert_files takes it.
FileRecord(path, sha, ctx) ==
    [path |-> path, size |-> 1, mtime |-> 1, sha256 |-> sha,
     mime |-> DefaultMime, context_tag |-> ctx]

RecordUniverse == {FileRecord(p, h, c) : p \in StorePaths, h \in Shas, c \in ContextTags}

Batches == SeqsUpTo(RecordUniverse, MaxBatch)

\* Mutant of UpsertOne: ON CONFLICT(path) DO NOTHING.
UpsertOne_KeepsOld(rs, rec) ==
    IF \E i \in DOMAIN rs : rs[i].path = rec.path THEN rs ELSE Append(rs, rec)

\* INSERT ... ON CONFLICT(path) DO UPDATE SET ...: the row of the path is
\* updated in place (it keeps its rowid), a new path gets a new row.
UpsertOne(rs, rec) ==
    IF \E i \in DOMAIN rs : rs[i].path = rec.path
    THEN [i \in DOMAIN rs |-> IF rs[i].path = rec.path THEN rec ELSE rs[i]]
    ELSE Append(rs, rec)

\* cur.executemany(...): the records one after the other.
RECURSIVE upsert_files(_, _)
upsert_files(rs, records) ==
    IF records = <<>> THEN rs
    ELSE upsert_files(UpsertOne(rs, Head(records)), Tail(records))

\* The last record given for each path, after one more call.
RECURSIVE LastRecords(_, _)
LastRecords(lr, records) ==
    IF records = <<>> THEN lr
    ELSE LET rec == Head(records)
         IN LastRecords([q \in (DOMAIN lr) \cup {rec.path} |->
                            IF q = rec.path THEN rec ELSE lr[q]], Tail(records))

\* Mutant of GroupKey: rows are grouped by sha256 alone.
GroupKey_ShaOnly(row) == <<row.sha256, DefaultContextTag>>

\* GROUP BY sha256, context_tag
GroupKey(row) == <<row.sha256, row.context_tag>>

\* Order of two group keys in the index on (sha256, context_tag).
KeyLess(k1, k2) ==
    \/ StrLess(k1[1], k2[1])
    \/ k1[1] = k2[1] /\ StrLess(k1[2], k2[2])

\* The paths of the rows of a group in rowid order: SelectSeq keeps the
\* order of the table.
RECURSIVE PathsOf(_, _)
PathsOf(rs, key) ==
    IF rs = <<>> THEN <<>>
    ELSE (IF GroupKey(Head(rs)) = key THEN <<Head(rs).path>> ELSE <<>>)
         \o PathsOf(Tail(rs), key)

\* The groups of the given keys, smallest key first.
RECURSIVE GroupsInOrder(_, _)
GroupsInOrder(rs, keys) ==
    IF keys = {} THEN <<>>
    ELSE LET k == CHOOSE k \in keys : \A o \in keys \ {k} : KeyLess(k, o)
         IN <<<<k[1], k[2], Join(PathsOf(rs, k), "|")>>>>
            \o GroupsInOrder(rs, keys \ {k})

\* Mutant of get_duplicates: the query without its HAVING clause.
get_duplicates_NoHaving(rs) ==
    GroupsInOrder(rs, {GroupKey(rs[i]) : i \in DOMAIN rs})

\* SELECT sha256, context_tag, GROUP_CONCAT(path, '|') FROM files
\* GROUP BY sha256, context_tag HAVING COUNT(*) > 1
get_duplicates(rs) ==
    LET keys == {GroupKey(rs[i]) : i \in DOMAIN rs}
        dup  == {k \in keys : Len(PathsOf(rs, k)) > 1}
    IN GroupsInOrder(rs, dup)

StoreIdle ==
    /\ store = EmptyDb
    /\ db_pc = "closed"
    /\ current = 0
    /\ version = 0
    /\ mig_log = <<>>
    /\ store0 = EmptyDb
    /\ last_rec = <<>>

PlanIdle == plan_runs = <<>> /\ now = 0

KeysIdle == rbk = 0 /\ rbk0 = 0 /\ plan_keys = <<>>

ScanIdle ==
    /\ scan_pc = "idle"
    /\ futs = {}
    /\ hashed = {}
    /\ results = <<>>
    /\ dropped = {}
    /\ total = 0

VerifyIdle == vf = <<>>

FastIdle == fast = <<>>

\* No earlier run of apply_moves: the plan is applied for the first time.
RerunIdle == prev = <<>>

\* The commands are not run as a pipeline.
PipeIdle == pipe = <<>>

OthersIdle == StoreIdle /\ PlanIdle /\ KeysIdle /\ ScanIdle /\ VerifyIdle /\ FastIdle /\ RerunIdle /\ PipeIdle

InitStore ==
    /\ store \in InitialStores
    /\ store0 = EmptyDb
    /\ db_pc = "closed"
    /\ current = 0
    /\ version = 0
    /\ mig_log = <<>>
    /\ last_rec = <<>>
    /\ ApplierIdle(<<>>, <<>>)
    /\ PlanIdle /\ KeysIdle /\ ScanIdle /\ VerifyIdle /\ FastIdle /\ RerunIdle /\ PipeIdle

\* DB.__init__ up to the loop of _migrate: connect, _init_base_schema,
\* current = _get_schema_version().
Open ==
    /\ db_pc = "closed"
    /\ store' = BASE_SCHEMA(store)
    /\ current' = get_schema_version(BASE_SCHEMA(store))
    /\ version' = 1
    /\ db_pc' = "migrate"
    /\ mig_log' = <<>>
    /\ store0' = store
    /\ UNCHANGED <<last_rec, exceptStore>>

\* One turn of the loop of _migrate for a version that is not pending.
SkipMigration ==
    /\ db_pc = "migrate"
    /\ version <= LastMigration
    /\ version <= current
    /\ version' = version + 1
    /\ UNCHANGED <<store, db_pc, current, mig_log, store0, last_rec, exceptStore>>

\* One turn of the loop of _migrate for a pending version, first half:
\* executescript(MIGRATIONS[version]).  The script runs outside any
\* transaction: what it does is in the file at once.
ApplyMigration ==
    /\ db_pc = "migrate"
    /\ version <= LastMigration
    /\ version > current
    /\ ~MigrationRaises(version, store)
    /\ store' = MIGRATIONS(version, store)
    /\ db_pc' = "record"
    /\ UNCHANGED <<current, version, mig_log, store0, last_rec, exceptStore>>

\* Second half: the record of the migration and the commit.
CommitMigration ==
    /\ db_pc = "record"
    /\ store' = RecordMigration(version, store)
    /\ mig_log' = Append(mig_log, version)
    /\ version' = version + 1
    /\ db_pc' = "migrate"
    /\ UNCHANGED <<current, store0, last_rec, exceptStore>>

\* The script raises: rollback, RuntimeError out of DB.__init__.
MigrationFailed ==
    /\ db_pc = "migrate"
    /\ version <= LastMigration
    /\ version > current
    /\ MigrationRaises(version, store)
    /\ db_pc' = "failed"
    /\ UNCHANGED <<store, current, version, mig_log, store0, last_rec, exceptStore>>

\* The script raises sqlite3.Error for a reason outside the store's
\* content (the database is locked by another process, the disk is full):
\* rollback, RuntimeError out of DB.__init__.
ScriptError ==
    /\ db_pc = "migrate"
    /\ version <= LastMigration
    /\ version > current
    /\ ~MigrationRaises(version, store)
    /\ db_pc' = "failed"
    /\ UNCHANGED <<store, current, version, mig_log, store0, last_rec, exceptStore>>

\* The INSERT into schema_version or the commit raises sqlite3.Error: the
\* rollback undoes the INSERT, not the script.
RecordError ==
    /\ db_pc = "record"
    /\ version >= 4
    /\ db_pc' = "failed"
    /\ UNCHANGED <<store, current, version, mig_log, store0, last_rec, exceptStore>>

\* The loop of _migrate is over: DB.__init__ returns.
Opened ==
    /\ db_pc = "migrate"
    /\ version > LastMigration
    /\ db_pc' = "open"
    /\ UNCHANGED <<store, current, version, mig_log, last_rec, exceptStore>>
    /\ store0' = EmptyDb

\* The process is killed inside the loop of _migrate: what the scripts
\* did and what was committed stays in the file.
KilledInMigrate ==
    /\ db_pc \in {"migrate", "record"}
    /\ db_pc' = "closed"
    /\ UNCHANGED <<store, current, version, mig_log, last_rec, exceptStore>>
    /\ store0' = EmptyDb

\* DB.upsert_files(records)
UpsertFiles ==
    /\ db_pc = "open"
    /\ \E records \in Batches :
          /\ store' = [store EXCEPT !.rows = upsert_files(@, records)]
          /\ last_rec' = LastRecords(last_rec, records)
    /\ UNCHANGED <<db_pc, current, version, mig_log, store0, exceptStore>>

\* DB.close(), or the end of the process after a failed open.
Close ==
    /\ db_pc \in {"open", "failed"}
    /\ db_pc' = "closed"
    /\ UNCHANGED <<store, current, version, mig_log, last_rec, exceptStore>>
    /\ store0' = EmptyDb

NextStore ==
    \/ Open
    \/ SkipMigration
    \/ ApplyMigration
    \/ CommitMigration
    \/ MigrationFailed
    \/ ScriptError
    \/ RecordError
    \/ Opened
    \/ KilledInMigrate
    \/ UpsertFiles
    \/ Close

SpecStore == InitStore /\ [][NextStore]_vars

(***************************************************************************)
(* cmd_plan (src/cli.py): Path(src), str(dst), the rows of the plan        *)
(***************************************************************************)
\* Records in the store cmd_plan reads.
MaxRecords == 3

\* Runs of cmd_plan on the same store and filesystem.
MaxPlans == 2

\* Seconds the clock advances while the runs are made.
MaxClock == 1

\* The text f" ({i})" of the uniqueness rule, for i = 1, 2, 3.
MarkToks == <<" (1)", " (2)", " (3)">>

MarkNum(tok) == CHOOSE i \in 1..Len(MarkToks) : MarkToks[i] = tok

\* One segment of a file name: its text, then its " (i)" marks.
SegOf(toks) == Seg(toks[1], [k \in 1..(Len(toks) - 1) |-> MarkNum(toks[k + 1])])

\* Path(s): the components between the "/", the last one the name, split
\* at its dots.  A directory name is one token.
Path(s) ==
    LET parts == Split(s, "/")
        segs  == Split(parts[Len(parts)], ".")
    IN MkPath([k \in 1..(Len(parts) - 1) |-> parts[k][1]],
              [k \in 1..Len(segs) |-> SegOf(segs[k])])

SegStr(g) == <<g.s>> \o [k \in 1..Len(g.u) |-> MarkToks[g.u[k]]]

\* str(p)
str(p) ==
    Join([k \in 1..Len(p.dir) |-> <<p.dir[k]>>]
         \o <<Join([k \in 1..Len(p.name) |-> SegStr(p.name[k])], ".")>>, "/")

\* dup_dir / srcp.name, with dup_dir = srcp.parent / ".deduplab_duplicates"
DupDst(srcp) == MkPath(Append(srcp.dir, ".deduplab_duplicates"), srcp.name)

\* sorted(paths)
sorted(paths) == SortSeq(paths, StrLess)

DigitToks == <<"0", "1", "2", "3", "4", "5", "6", "7", "8", "9">>

\* The decimal digits of n.
RECURSIVE Digits(_)
Digits(n) ==
    IF n < 10 THEN <<DigitToks[n + 1]>>
    ELSE Append(Digits(n \div 10), DigitToks[(n % 10) + 1])

\* Mutant of Format06d: the last six digits.
Format06d_SixDigits(n) ==
    LET ds == [k \in 1..5 |-> "0"] \o Digits(n)
    IN SubSeq(ds, Len(ds) - 5, Len(ds))

\* f"{n:06d}": the digits of n, zero-padded on the left to a width of 6.
Format06d(n) ==
    LET ds == Digits(n)
    IN IF Len(ds) >= 6 THEN ds ELSE [k \in 1..(6 - Len(ds)) |-> "0"] \o ds

\* f"rbk:{rbk:06d}"
rollback_key(n) == <<"rbk:">> \o Format06d(n)

\* f"b3:sha256:{sha}:ctx:{context_tag}"
content_id(sha, ctx) == <<"b3:sha256:">> \o sha \o <<":ctx:">> \o ctx

\* rows.append({...}) for one src of a group.
PlanCsvRow(s, sha, ctx, fs, n, ts) ==
    [status |-> "planned", op |-> "move", src_path |-> s,
     dst_path |-> str(ensure_unique(DupDst(Path(s)), fs)),
     content_id |-> content_id(sha, ctx), reason |-> "dedup",
     rollback_key |-> rollback_key(n), ts |-> ts]

\* The inner loop: for src in paths[1:].
RECURSIVE GroupRows(_, _, _, _, _, _)
GroupRows(srcs, sha, ctx, fs, n, ts) ==
    IF srcs = <<>> THEN <<>>
    ELSE <<PlanCsvRow(Head(srcs), sha, ctx, fs, n, ts)>>
         \o GroupRows(Tail(srcs), sha, ctx, fs, n + 1, ts)

\* The outer loop: for sha, context_tag, paths_csv in dups.
RECURSIVE PlanRows(_, _, _, _)
PlanRows(dups, fs, n, ts) ==
    IF dups = <<>> THEN <<>>
    ELSE LET g     == Head(dups)
             paths == sorted(Split(g[3], "|"))
             rs    == GroupRows(Tail(paths), g[1], g[2], fs, n, ts)
         IN rs \o PlanRows(Tail(dups), fs, n + Len(rs), ts)

\* The rows of all the plans written so far.
RowsWritten == IF plan_runs = <<>> THEN 0
               ELSE Len(plan_runs[1].csv) * Len(plan_runs)

\* Mutant of cmd_plan: the key counter is not reset between runs.
cmd_plan_CounterKept(rs, fs, ts) == PlanRows(get_duplicates(rs), fs, RowsWritten, ts)

\* The rows cmd_plan hands to write_plan_csv: dups = db.get_duplicates(),
\* ts = _iso_now(), rbk = 0, the two loops.
cmd_plan(rs, fs, ts) == PlanRows(get_duplicates(rs), fs, 0, ts)

S_cd == <<"r", "/", "c", "|", "d", ".", "txt">>

PlanPaths == {S_a, S_f, S_f1, S_cd}

Q_f1 == MkPath(Quarantine, <<Seg("f", <<1>>), Seg("txt", <<>>)>>)

\* The store after migration 4, holding the given rows.
V4Store(rs) ==
    [tables |-> {"files", "runs", "schema_version"},
     columns |-> BaseColumns \cup {"mime", "context_tag"},
     indexes |-> {"idx_sha", "idx_files_hash_ctx"},
     rows |-> rs, schema_version |-> <<4>>]

\* The tables upserts can leave: up to MaxRecords rows, one per path.
StoreRows ==
    {rs \in SeqsUpTo({FileRecord(p, h, c) : p \in PlanPaths, h \in Shas, c \in ContextTags},
                     MaxRecords) :
        \A i, j \in DOMAIN rs : i # j => rs[i].path # rs[j].path}

\* cmd_plan is run on a store at version 4 and a filesystem whose
\* quarantine directory may hold files already (cmd_plan reads nothing
\* else of the filesystem).
InitPlan ==
    /\ \E rs \in StoreRows : store = V4Store(rs)
    /\ db_pc = "closed"
    /\ current = 0 /\ version = 0 /\ mig_log = <<>> /\ store0 = EmptyDb
    /\ last_rec = <<>>
    /\ \E live \in SUBSET {Q_f, Q_f1} : ApplierIdle([q \in live |-> <<1>>], <<>>)
    /\ PlanIdle /\ KeysIdle /\ ScanIdle /\ VerifyIdle /\ FastIdle /\ RerunIdle /\ PipeIdle

\* One run of cmd_plan; DB(...) finds the store at version 4 and changes
\* nothing, write_plan_csv writes the rows to args.out.
CmdPlan ==
    /\ Len(plan_runs) < MaxPlans
    /\ plan_runs' = Append(plan_runs, [csv |-> cmd_plan(store.rows, files, now), at |-> now])
    /\ UNCHANGED <<now, exceptPlan>>

\* A second passes.
Tick ==
    /\ now < MaxClock
    /\ now' = now + 1
    /\ UNCHANGED <<plan_runs, exceptPlan>>

NextPlan ==
    \/ CmdPlan
    \/ Tick

SpecPlan == InitPlan /\ [][NextPlan]_vars

(***************************************************************************)
(* The key counter of cmd_plan over a stretch of a plan's rows: rbk and    *)
(* the rollback keys written, from the first row or from a later one of a  *)
(* long plan.                                                              *)
(***************************************************************************)
\* Rows of the plan that are observed.
MaxKeys == 16

\* The row counts at which the observation begins: the start of the plan,
\* and the rows before the counter gets one more digit.
KeyStarts == {0, 9, 99, 999, 9999, 99999, 999999}

InitKeys ==
    /\ rbk0 \in KeyStarts
    /\ rbk = rbk0
    /\ plan_keys = <<>>
    /\ ApplierIdle(<<>>, <<>>)
    /\ StoreIdle /\ PlanIdle /\ ScanIdle /\ VerifyIdle /\ FastIdle /\ RerunIdle /\ PipeIdle

\* rows.append({..., "rollback_key": f"rbk:{rbk:06d}", ...}); rbk += 1
EmitKey ==
    /\ Len(plan_keys) < MaxKeys
    /\ plan_keys' = Append(plan_keys, rollback_key(rbk))
    /\ rbk' = rbk + 1
    /\ UNCHANGED <<rbk0, exceptKeys>>

NextKeys == EmitKey

SpecKeys == InitKeys /\ [][NextKeys]_vars

(***************************************************************************)
(* State after apply_moves(rows, checkpoint, dry_run) has been called      *)
(***************************************************************************)
inputs   == <<rows, dry_run, files0, dirs0, otherVars>>
counters == <<attempted, skipped, errors, bytes_moved>>
locals   == <<src, dst, size, content0>>
history  == <<outcome, used_dst, applied_row, warned, stopped_at, env_changed>>
rbVars   == <<rb_pc, rb_moves, rb_i, restored, rb_errors, files_cp, rb_log>>

Init ==
    /\ \E live \in SUBSET InitPaths : files \in [live -> Contents]
    /\ dirs = Mkdirs({}, Root) \cup DirsOf(files)
    /\ rows \in Plans
    /\ dry_run \in BOOLEAN
    /\ pc = "row"
    /\ idx = 1
    /\ src = NoPath /\ dst = NoPath /\ size = 0 /\ content0 = EmptyContent
    /\ applied = <<>>
    /\ attempted = 0 /\ skipped = 0 /\ errors = 0 /\ bytes_moved = 0
    /\ checkpoint = <<>>
    /\ rb_pc = "idle" /\ rb_moves = <<>> /\ rb_i = 0
    /\ restored = 0 /\ rb_errors = 0
    /\ files0 = files /\ dirs0 = dirs
    /\ outcome = [i \in 1..Len(rows) |-> "pending"]
    /\ used_dst = [i \in 1..Len(rows) |-> NoPath]
    /\ applied_row = <<>>
    /\ warned = {}
    /\ stopped_at = "none"
    /\ files_cp = files
    /\ env_changed = FALSE
    /\ rb_log = <<>>
    /\ OthersIdle

(***************************************************************************)
(* apply_moves: the body of the for-loop up to the call of                 *)
(* copy_verify_delete                                                      *)
(***************************************************************************)
\* row.get("op") != "move" or row.get("status") != "planned"
NotPlannedMove(row) == row.op # "move" \/ row.status # "planned"

\* "Handle destination conflicts": dst, or a unique name when dst exists.
ResolveDst(d, fs) == IF Exists(fs, d) THEN ensure_unique(d, fs) ELSE d

\* The loop moves on to the next row with row idx settled as `what`.
NextRow(what) ==
    /\ outcome' = [outcome EXCEPT ![idx] = what]
    /\ idx' = idx + 1
    /\ pc' = "row"

\* Mutant of SkipRow: the destination directory is made before the test of
\* the source.
SkipRow_MakesDir(row) ==
    /\ skipped' = skipped + 1
    /\ dst' = row.dst_path
    /\ NextRow("skipped")
    /\ dirs' = Mkdirs(dirs, row.dst_path.dir)
    /\ UNCHANGED <<files, size, content0, used_dst>>

\* if not src.exists(): skipped += 1; continue
SkipRow(row) ==
    /\ skipped' = skipped + 1
    /\ dst' = row.dst_path
    /\ NextRow("skipped")
    /\ UNCHANGED <<files, dirs, size, content0, used_dst>>

ApplyRow ==
    /\ pc = "row"
    /\ idx <= Len(rows)
    /\ LET row == rows[idx]
           s   == row.src_path
           d   == ResolveDst(row.dst_path, files)
       IN IF NotPlannedMove(row)
          THEN /\ NextRow("ignored")
               /\ UNCHANGED <<files, dirs, locals, counters, used_dst>>
          ELSE /\ attempted' = attempted + 1
               /\ src' = s
               /\ IF ~Exists(files, s)
                  THEN SkipRow(row)
                  ELSE /\ dirs' = Mkdirs(dirs, row.dst_path.dir)
                       /\ dst' = d
                       /\ size' = SizeOf(files[s])
                       /\ skipped' = skipped
                       /\ IF dry_run
                          THEN /\ NextRow("dry")
                               /\ UNCHANGED <<content0, used_dst>>
                          ELSE /\ pc' = "copy"
                               /\ content0' = files[s]
                               /\ used_dst' = [used_dst EXCEPT ![idx] = d]
                               /\ UNCHANGED <<idx, outcome>>
                       /\ UNCHANGED files
               /\ UNCHANGED <<errors, bytes_moved>>
    /\ UNCHANGED <<inputs, applied, checkpoint, applied_row, warned, stopped_at,
                   env_changed, rbVars>>

(***************************************************************************)
(* copy_verify_delete(src, dst), one action per phase and outcome          *)
(***************************************************************************)
\* What stays as it is while a move is in one of its phases.
MoveFrame == UNCHANGED <<inputs, dirs, locals, applied, attempted, skipped,
                         bytes_moved, checkpoint, applied_row, warned,
                         stopped_at, used_dst, env_changed, rbVars>>

\* dst_tmp.open("wb"): the temp file is created, or truncated when a file
\* is already there.
OpenForWrite(fs, p) == WriteFile(fs, p, EmptyContent)

\* Phase 1: shutil.copyfileobj(s, d) with s open on src and d on dst_tmp.
CopyBytes(fs, s, tmp) ==
    LET opened == OpenForWrite(fs, tmp)
    IN WriteFile(opened, tmp, opened[s])

\* A phase raised: the temp file is unlinked (by the phase's handler, or by
\* the clean-up of the outer handler), the exception reaches apply_moves'
\* handler, which counts an error, and the loop goes on.
FailRow ==
    /\ files' = Unlink(files, DstTmp(dst))
    /\ errors' = errors + 1
    /\ NextRow("error")
    /\ MoveFrame

CopyOk ==
    /\ pc = "copy"
    /\ files' = CopyBytes(files, src, DstTmp(dst))
    /\ pc' = "fsync"
    /\ UNCHANGED <<idx, outcome, errors>>
    /\ MoveFrame

\* The fault of scenario F: the bytes that reach the temp file are not the
\* bytes of the source.
CopyCorrupt ==
    /\ pc = "copy"
    /\ \E c \in Contents \cup {EmptyContent} :
          /\ c # OpenForWrite(files, DstTmp(dst))[src]
          /\ files' = WriteFile(files, DstTmp(dst), c)
    /\ pc' = "fsync"
    /\ UNCHANGED <<idx, outcome, errors>>
    /\ MoveFrame

CopyFail ==
    /\ pc = "copy"
    /\ FailRow

FsyncOk ==
    /\ pc = "fsync"
    /\ pc' = "verify"
    /\ UNCHANGED <<files, idx, outcome, errors>>
    /\ MoveFrame

FsyncFail ==
    /\ pc = "fsync"
    /\ FailRow

\* Phase 2: re-hash src and the temp file.
Verify ==
    /\ pc = "verify"
    /\ IF HashMismatch(files, src, DstTmp(dst))
       THEN FailRow
       ELSE /\ pc' = "rename"
            /\ UNCHANGED <<files, idx, outcome, errors>>
            /\ MoveFrame

\* Phase 3: dst_tmp.rename(dst)
RenameOk ==
    /\ pc = "rename"
    /\ files' = Rename(files, DstTmp(dst), dst)
    /\ pc' = "unlink"
    /\ UNCHANGED <<idx, outcome, errors>>
    /\ MoveFrame

RenameFail ==
    /\ pc = "rename"
    /\ FailRow

\* Mutant of AppendMove: the entry is put at the head of the list.
AppendMove_Prepends(log, s, d, n) == <<[src |-> s, dst |-> d, size |-> n]>> \o log

\* Mutant of AppendMove: the entry's src and dst are swapped.
AppendMove_Swapped(log, s, d, n) == Append(log, [src |-> d, dst |-> s, size |-> n])

\* applied.append({"src", "dst", "size", "timestamp"}) (the timestamp is not
\* modelled).
AppendMove(log, s, d, n) == Append(log, [src |-> s, dst |-> d, size |-> n])

\* Mutant of RecordMove: the size is not added to bytes_moved.
RecordMove_NoBytes ==
    /\ bytes_moved' = bytes_moved
    /\ applied' = AppendMove(applied, src, dst, size)
    /\ applied_row' = Append(applied_row, idx)
    /\ NextRow("succeeded")
    /\ UNCHANGED <<inputs, dirs, locals, attempted, skipped, errors, checkpoint,
                   stopped_at, used_dst, env_changed, rbVars>>

\* copy_verify_delete returned size: the move is recorded.
RecordMove ==
    /\ bytes_moved' = bytes_moved + size
    /\ applied' = AppendMove(applied, src, dst, size)
    /\ applied_row' = Append(applied_row, idx)
    /\ NextRow("succeeded")
    /\ UNCHANGED <<inputs, dirs, locals, attempted, skipped, errors, checkpoint,
                   stopped_at, used_dst, env_changed, rbVars>>

\* Mutant of UnlinkOk: the source is never unlinked and the move is recorded.
UnlinkOk_LeavesSource ==
    /\ pc = "unlink"
    /\ Exists(files, src)
    /\ files' = files
    /\ warned' = warned
    /\ RecordMove

\* src.unlink() succeeds.
UnlinkOk ==
    /\ pc = "unlink"
    /\ Exists(files, src)
    /\ files' = Unlink(files, src)
    /\ warned' = warned
    /\ RecordMove

\* src.unlink() raises (always when src is not there): the warning is
\* printed and the row still counts as moved.
UnlinkFail ==
    /\ pc = "unlink"
    /\ files' = files
    /\ warned' = warned \cup {idx}
    /\ RecordMove

(***************************************************************************)
(* apply_moves after the loop: the checkpoint manifest                     *)
(***************************************************************************)
Manifest(dry, att, log, skp, err, bytes) ==
    [dry_run |-> dry,
     statistics |-> [attempted |-> att, succeeded |-> Len(log), skipped |-> skp,
                     errors |-> err, bytes_moved |-> bytes],
     moves |-> log]

\* Mutant of WriteCheckpoint: the checkpoint is written only when a move was
\* recorded.
WriteCheckpoint_OnlyWithMoves ==
    /\ pc = "row"
    /\ idx > Len(rows)
    /\ dirs' = Mkdirs(dirs, CheckpointDir)
    /\ checkpoint' = IF applied = <<>> THEN checkpoint
                     ELSE <<Manifest(dry_run, attempted, applied, skipped, errors, bytes_moved)>>
    /\ pc' = "done"
    /\ UNCHANGED <<inputs, files, idx, locals, applied, counters, history, rbVars>>

WriteCheckpoint ==
    /\ pc = "row"
    /\ idx > Len(rows)
    /\ dirs' = Mkdirs(dirs, CheckpointDir)
    /\ checkpoint' = <<Manifest(dry_run, attempted, applied, skipped, errors, bytes_moved)>>
    /\ pc' = "done"
    /\ UNCHANGED <<inputs, files, idx, locals, applied, counters, history, rbVars>>

(***************************************************************************)
(* The process stops inside apply_moves, by a KeyboardInterrupt or a kill. *)
(* KeyboardInterrupt is no Exception: no handler of apply_moves or of      *)
(* copy_verify_delete runs, and main returns 130 without the checkpoint    *)
(* having been written; a kill runs nothing either, so one action models   *)
(* both.                                                                   *)
(***************************************************************************)
Running == pc \in {"row", "copy", "fsync", "verify", "rename", "unlink"}

Stop ==
    /\ Running
    /\ pc' = "stopped"
    /\ stopped_at' = pc
    /\ UNCHANGED <<inputs, files, dirs, idx, locals, applied, counters, checkpoint,
                   outcome, used_dst, applied_row, warned, env_changed, rbVars>>

(***************************************************************************)
(* rollback_from_checkpoint(checkpoint)                                    *)
(***************************************************************************)
applyVars == <<rows, dry_run, pc, idx, src, dst, size, applied, attempted, skipped,
               errors, bytes_moved, checkpoint, files0, dirs0, outcome, used_dst,
               applied_row, warned, content0, stopped_at, env_changed, otherVars>>

(***************************************************************************)
(* The environment, not the program: between the apply and the rollback    *)
(* somebody puts a new file where a moved file used to be.                 *)
(***************************************************************************)
EnvCreate ==
    /\ pc = "done"
    /\ rb_pc = "idle"
    /\ ~env_changed
    /\ checkpoint # <<>>
    /\ \E k \in 1..Len(checkpoint[1].moves), c \in Contents :
          /\ ~Exists(files, checkpoint[1].moves[k].src)
          /\ files' = WriteFile(files, checkpoint[1].moves[k].src, c)
    /\ env_changed' = TRUE
    /\ UNCHANGED <<inputs, dirs, pc, idx, locals, applied, counters, checkpoint,
                   outcome, used_dst, applied_row, warned, stopped_at, rbVars>>

\* json.loads(checkpoint.read_text()), manifest.get("moves", [])
RollbackStart ==
    /\ pc \in {"done", "stopped"}
    /\ rb_pc = "idle"
    /\ checkpoint # <<>>
    /\ rb_moves' = checkpoint[1].moves
    /\ rb_i' = Len(checkpoint[1].moves)
    /\ rb_pc' = "loop"
    /\ files_cp' = files
    /\ UNCHANGED <<applyVars, files, dirs, restored, rb_errors, rb_log>>

\* Mutant of RestoreTarget: the target is used whether or not it exists.
RestoreTarget_NoCheck(mv, fs) == mv.src

\* if dst_restore.exists(): dst_restore = ensure_unique(dst_restore)
RestoreTarget(mv, fs) == IF Exists(fs, mv.src) THEN ensure_unique(mv.src, fs) ELSE mv.src

\* One entry of reversed(moves), without an exception.
RollbackEntry ==
    /\ rb_pc = "loop"
    /\ rb_i >= 1
    /\ LET mv          == rb_moves[rb_i]
           src_now     == mv.dst
           dst_restore == RestoreTarget(mv, files)
           moves_it    == Exists(files, src_now)
       IN /\ dirs' = Mkdirs(dirs, mv.src.dir)
          /\ files' = IF moves_it THEN Rename(files, src_now, dst_restore) ELSE files
          /\ restored' = IF moves_it THEN restored + 1 ELSE restored
          /\ rb_log' = Append(rb_log, [entry |-> rb_i, moved |-> moves_it,
                                       failed |-> FALSE, to |-> dst_restore])
    /\ rb_i' = rb_i - 1
    /\ UNCHANGED <<applyVars, rb_pc, rb_moves, rb_errors, files_cp>>

\* Mutant of RollbackEntryFail: the exception ends the walk.
RollbackEntryFail_Stops ==
    /\ rb_pc = "loop"
    /\ rb_i >= 1
    /\ Exists(files, rb_moves[rb_i].dst)
    /\ dirs' = Mkdirs(dirs, rb_moves[rb_i].src.dir)
    /\ rb_errors' = rb_errors + 1
    /\ rb_log' = Append(rb_log, [entry |-> rb_i, moved |-> FALSE, failed |-> TRUE,
                                 to |-> RestoreTarget(rb_moves[rb_i], files)])
    /\ rb_pc' = "done"
    /\ UNCHANGED <<applyVars, files, rb_i, rb_moves, restored, files_cp>>

\* shutil.move raises on the entry: errors is incremented, the walk goes on.
RollbackEntryFail ==
    /\ rb_pc = "loop"
    /\ rb_i >= 1
    /\ Exists(files, rb_moves[rb_i].dst)
    /\ dirs' = Mkdirs(dirs, rb_moves[rb_i].src.dir)
    /\ rb_errors' = rb_errors + 1
    /\ rb_log' = Append(rb_log, [entry |-> rb_i, moved |-> FALSE, failed |-> TRUE,
                                 to |-> RestoreTarget(rb_moves[rb_i], files)])
    /\ rb_i' = rb_i - 1
    /\ UNCHANGED <<applyVars, files, rb_pc, rb_moves, restored, files_cp>>

\* return {"restored": restored, "errors": errors}
RollbackReturn ==
    /\ rb_pc = "loop"
    /\ rb_i = 0
    /\ rb_pc' = "done"
    /\ UNCHANGED <<applyVars, files, dirs, rb_moves, rb_i, restored, rb_errors,
                   files_cp, rb_log>>

Next ==
    \/ ApplyRow
    \/ CopyOk
    \/ CopyCorrupt
    \/ CopyFail
    \/ FsyncOk
    \/ FsyncFail
    \/ Verify
    \/ RenameOk
    \/ RenameFail
    \/ UnlinkOk
    \/ UnlinkFail
    \/ WriteCheckpoint
    \/ Stop
    \/ EnvCreate
    \/ RollbackStart
    \/ RollbackEntry
    \/ RollbackEntryFail
    \/ RollbackReturn

Spec == Init /\ [][Next]_vars

(***************************************************************************)
(* A second "apply --force" on the same plan file, after the first run     *)
(* returned or was stopped: main calls apply_moves again with the rows     *)
(* read from the same CSV and the same --checkpoint path.                  *)
(***************************************************************************)
Rerun ==
    /\ prev = <<>>
    /\ ~dry_run
    /\ pc \in {"done", "stopped"}
    /\ rb_pc = "idle"
    /\ prev' = <<[outcome |-> outcome, files0 |-> files0, used_dst |-> used_dst,
                  warned |-> warned]>>
    /\ pc' = "row"
    /\ idx' = 1
    /\ src' = NoPath /\ dst' = NoPath /\ size' = 0 /\ content0' = EmptyContent
    /\ applied' = <<>>
    /\ attempted' = 0 /\ skipped' = 0 /\ errors' = 0 /\ bytes_moved' = 0
    /\ files0' = files /\ dirs0' = dirs
    /\ outcome' = [i \in 1..Len(rows) |-> "pending"]
    /\ used_dst' = [i \in 1..Len(rows) |-> NoPath]
    /\ applied_row' = <<>>
    /\ warned' = {}
    /\ stopped_at' = "none"
    /\ UNCHANGED <<files, dirs, rows, dry_run, checkpoint, env_changed, rbVars,
                   storeVars, planVars, keyVars, scanVars, verifyVars, fastVars,
                   pipeVars>>

InitRerun == Init /\ dry_run = FALSE

NextRerun ==
    \/ ApplyRow
    \/ CopyOk
    \/ CopyFail
    \/ FsyncOk
    \/ FsyncFail
    \/ Verify
    \/ RenameOk
    \/ RenameFail
    \/ UnlinkOk
    \/ UnlinkFail
    \/ WriteCheckpoint
    \/ Stop
    \/ Rerun

SpecRerun == InitRerun /\ [][NextRerun]_vars

(***************************************************************************)
(* The applier of src/dedupelab/applier.py, which moves a file of the same *)
(* device by a rename, as one step from the plan and the filesystem to     *)
(* what it leaves and returns, next to a run of the applier of             *)
(* src/applier.py in which no phase fails for a reason outside the files.  *)
(***************************************************************************)
\* Path.resolve().anchor: the root of the path; on POSIX one root holds
\* every path.
Anchor(p) == "/"

\* copy_verify_delete(src, dst) of src/dedupelab/applier.py: the files it
\* leaves and the number it returns.
fast_copy_verify_delete(fs, s, d) ==
    IF Anchor(s) # Anchor(d)
    THEN [files |-> Unlink(WriteFile(fs, d, fs[s]), s), ret |-> SizeOf(fs[s])]
    ELSE LET moved == Rename(fs, s, d)
         IN [files |-> moved,
             ret |-> IF Exists(moved, s) THEN SizeOf(moved[s]) ELSE 0]

\* applied.append({"src": str(src), "dst": str(dst)})
FastAppendMove(log, s, d) == Append(log, [src |-> s, dst |-> d])

\* One turn of the loop of its apply_moves.
FastRow(acc, row, dry) ==
    IF NotPlannedMove(row) THEN acc
    ELSE IF ~Exists(acc.files, row.src_path)
    THEN [acc EXCEPT !.attempted = @ + 1, !.skipped = @ + 1]
    ELSE LET d == ResolveDst(row.dst_path, acc.files)
             mv == fast_copy_verify_delete(acc.files, row.src_path, d)
             made == [acc EXCEPT !.attempted = @ + 1,
                                 !.dirs = Mkdirs(@, row.dst_path.dir)]
         IN IF dry THEN made
            ELSE [made EXCEPT !.files = mv.files,
                              !.bytes_moved = @ + mv.ret,
                              !.applied = FastAppendMove(@, row.src_path, d)]

RECURSIVE FastRows(_, _, _)
FastRows(acc, rs, dry) ==
    IF rs = <<>> THEN acc ELSE FastRows(FastRow(acc, Head(rs), dry), Tail(rs), dry)

\* Its apply_moves(rows, checkpoint, dry_run): the filesystem and the
\* checkpoint it leaves and the statistics it returns.
fast_apply_moves(rs, dry, fs, ds) ==
    LET acc == FastRows([files |-> fs, dirs |-> ds, applied |-> <<>>, attempted |-> 0,
                         skipped |-> 0, errors |-> 0, bytes_moved |-> 0], rs, dry)
    IN [files |-> acc.files,
        dirs |-> Mkdirs(acc.dirs, CheckpointDir),
        checkpoint |-> [moves |-> acc.applied],
        statistics |-> [attempted |-> acc.attempted, succeeded |-> Len(acc.applied),
                        skipped |-> acc.skipped, errors |-> acc.errors,
                        bytes_moved |-> acc.bytes_moved]]

\* The same plan on the same filesystem, handed to the other applier.
FastApplyMoves ==
    /\ fast = <<>>
    /\ fast' = <<fast_apply_moves(rows, dry_run, files0, dirs0)>>
    /\ UNCHANGED exceptFast

\* src.unlink() raises because src is not there any more.
UnlinkGone ==
    /\ ~Exists(files, src)
    /\ UnlinkFail

NextFast ==
    \/ ApplyRow
    \/ CopyOk
    \/ FsyncOk
    \/ Verify
    \/ RenameOk
    \/ UnlinkOk
    \/ UnlinkGone
    \/ WriteCheckpoint
    \/ FastApplyMoves

SpecFast == Init /\ [][NextFast]_vars

(***************************************************************************)
(* The scanner (src/scanner.py): the files iter_files finds under the      *)
(* root, the context tag of each, and threaded_hash, which takes the       *)
(* finished hashing jobs one by one in any order.                          *)
(***************************************************************************)
\* Most files on disk when the scan starts.
MaxScanned == 3

ARCHIVE_EXTENSIONS ==
    { <<".", "zip">>, <<".", "7z">>, <<".", "tar">>, <<".", "gz">>, <<".", "bz2">>,
      <<".", "xz">>, <<".", "rar">>, <<".", "tar", ".", "gz">>,
      <<".", "tar", ".", "bz2">>, <<".", "tar", ".", "xz">>, <<".", "tgz">>,
      <<".", "tbz2">> }

EXTRACTION_MARKERS ==
    {"extracted", "unzipped", "unpacked", "unarchived", "decompressed", "unrar", "untar"}

\* cfg["ignore_patterns"]
IgnorePatterns == {".git", "node_modules", "__pycache__", ".deduplab_duplicates"}

\* str.lower() on the code points of an ASCII string.
Lower(cs) == [k \in 1..Len(cs) |-> IF cs[k] \in 65..90 THEN cs[k] + 32 ELSE cs[k]]

\* needle in hay
Contains(hay, needle) ==
    \E k \in 0..(Len(hay) - Len(needle)) : SubSeq(hay, k + 1, k + Len(needle)) = needle

\* s.replace(a, b), for one-character a
Replace(s, a, b) == [k \in 1..Len(s) |-> IF s[k] = a THEN b ELSE s[k]]

\* s.replace(a, '')
Remove(s, a) == SelectSeq(s, LAMBDA tok : tok # a)

\* path.parents: the nearest directory first, the last one "." or "/",
\* whose name is empty.
Parents(p) == [k \in 1..(Len(p.dir) + 1) |-> SubSeq(p.dir, 1, Len(p.dir) + 1 - k)]

\* parent.name
NameOf(d) == IF d = <<>> THEN <<>> ELSE Codes[d[Len(d)]]

\* parent.with_name(parent.name + ext), for a parent with a name.
WithName(d, ext) ==
    LET segs == Split(<<d[Len(d)]>> \o ext, ".")
    IN MkPath(SubSeq(d, 1, Len(d) - 1), [k \in 1..Len(segs) |-> SegOf(segs[k])])

\* The body of the loop of _is_inside_archive for one parent: "True" when
\* it returns True, "ValueError" when with_name raises, "next" when the
\* loop goes on.
ParentCheck(d, fs) ==
    LET parent_name == Lower(NameOf(d))
    IN IF \E marker \in EXTRACTION_MARKERS : Contains(parent_name, Codes[marker])
          THEN "True"
       ELSE IF d = <<>> THEN "ValueError"
       ELSE IF \E ext \in ARCHIVE_EXTENSIONS : Exists(fs, WithName(d, ext))
          THEN "True"
       ELSE IF \E ext \in ARCHIVE_EXTENSIONS :
                  \/ Contains(parent_name, Flat(Replace(ext, ".", "_")))
                  \/ Contains(parent_name, Flat(Remove(ext, ".")))
          THEN "True"
       ELSE "next"

RECURSIVE InsideArchiveFrom(_, _)
InsideArchiveFrom(ps, fs) ==
    IF ps = <<>> THEN "False"
    ELSE LET r == ParentCheck(ps[1], fs)
         IN IF r = "next" THEN InsideArchiveFrom(Tail(ps), fs) ELSE r

is_inside_archive(p, fs) == InsideArchiveFrom(Parents(p), fs)

\* _detect_context(p): the tag, or the exception that comes out of it.
detect_context(p, fs) ==
    LET r == is_inside_archive(p, fs)
    IN IF r = "True" THEN <<"archived">>
       ELSE IF r = "False" THEN <<"unarchived">>
       ELSE <<r>>

\* set(p.parts) meets the ignore list.
should_skip(p, ignore) ==
    \/ \E k \in 1..Len(p.dir) : p.dir[k] \in ignore
    \/ \E ig \in ignore : Flat(str(MkPath(<<>>, p.name))) = Codes[ig]

\* The files under the root that are not skipped.
iter_files(fs, root, ignore) ==
    {p \in DOMAIN fs :
        /\ Len(p.dir) >= Len(root)
        /\ SubSeq(p.dir, 1, Len(root)) = root
        /\ ~should_skip(p, ignore)}

\* hashlib.sha256 of a file's bytes, for the contents of the model.
sha256_file(c) ==
    IF c = EmptyContent THEN <<"h0">>
    ELSE IF c = <<1>> THEN <<"h1">>
    ELSE <<"h2">>

\* _get_mime_safe(p), for the suffixes of the model.
get_mime_safe(p) ==
    LET suffix == p.name[Len(p.name)].s
    IN IF Len(p.name) < 2 THEN DefaultMime
       ELSE IF suffix = "txt" THEN <<"text/plain">>
       ELSE IF suffix = "zip" THEN <<"application/zip">>
       ELSE DefaultMime

\* (str(p), st.st_size, int(st.st_mtime), sha, mime, context); the mtime is
\* not modelled.
ScanRecord(p, fs, context) ==
    [path |-> str(p), size |-> SizeOf(fs[p]), mtime |-> 1,
     sha256 |-> sha256_file(fs[p]), mime |-> get_mime_safe(p), context_tag |-> context]

N_a == <<Seg("a", <<>>), Seg("txt", <<>>)>>
F_a == MkPath(Root, N_a)
F_c == MkPath(Root, <<Seg("c", <<>>), Seg("txt", <<>>)>>)
F_marker == MkPath(<<"r", "Extracted">>, N_a)
F_adjacent == MkPath(<<"r", "backup">>, N_a)
F_zip == MkPath(Root, <<Seg("backup", <<>>), Seg("zip", <<>>)>>)
F_named == MkPath(<<"r", "photos_zip", "d">>, N_a)
F_quarantined == MkPath(Quarantine, N_a)

\* Paths that may hold a file when the scan starts: two files of a plain
\* directory, a file under a directory named with an extraction marker, a
\* file in a directory next to an archive of the same name and that
\* archive, a file below a directory named like an archive, and a file in
\* the quarantine directory.
ScanPaths == {F_a, F_c, F_marker, F_adjacent, F_zip, F_named, F_quarantined}

InitScan ==
    /\ \E D \in SUBSET ScanPaths :
          /\ Cardinality(D) <= MaxScanned
          /\ \E fs \in [D -> Contents] : ApplierIdle(fs, <<>>)
    /\ StoreIdle /\ PlanIdle /\ KeysIdle /\ VerifyIdle /\ FastIdle /\ RerunIdle /\ PipeIdle
    /\ ScanIdle

\* cmd_scan has opened the store.  files = list(iter_files(roots, ignore));
\* a hashing job is submitted for each.
StartScan ==
    /\ scan_pc = "idle"
    /\ db_pc = "open"
    /\ futs' = iter_files(files, Root, IgnorePatterns)
    /\ hashed' = {}
    /\ total' = Cardinality(futs')
    /\ scan_pc' = "hashing"
    /\ UNCHANGED <<results, dropped, exceptScan>>

\* Mutant of WorkerHash: the worker appends the record of its file to the
\* shared list.
WorkerHash_Appends(p) ==
    /\ scan_pc = "hashing"
    /\ p \in futs \ hashed
    /\ hashed' = hashed \cup {p}
    /\ results' = Append(results, ScanRecord(p, files, <<"unarchived">>))
    /\ UNCHANGED <<scan_pc, futs, dropped, total, exceptScan>>

\* A worker thread runs _sha256_file(p) to its end: the job is completed,
\* with the hash or with the exception as its outcome.
WorkerHash(p) ==
    /\ scan_pc = "hashing"
    /\ p \in futs \ hashed
    /\ hashed' = hashed \cup {p}
    /\ UNCHANGED <<scan_pc, futs, results, dropped, total, exceptScan>>

\* as_completed yields a completed job whose file was hashed and tagged:
\* its record is appended.
RecordFile(p) ==
    /\ scan_pc = "hashing"
    /\ p \in futs \cap hashed
    /\ detect_context(p, files) \in ContextTags
    /\ results' = Append(results, ScanRecord(p, files, detect_context(p, files)))
    /\ futs' = futs \ {p}
    /\ UNCHANGED <<scan_pc, hashed, dropped, total, exceptScan>>

\* Mutant of HashFailed: the warning is printed and a record is appended
\* all the same.
HashFailed_Recorded(p) ==
    /\ scan_pc = "hashing"
    /\ p \in futs \cap hashed
    /\ dropped' = dropped \cup {[path |-> p, error |-> <<"OSError">>]}
    /\ results' = Append(results, ScanRecord(p, files, <<"unarchived">>))
    /\ futs' = futs \ {p}
    /\ UNCHANGED <<scan_pc, hashed, total, exceptScan>>

\* fut.result() or p.stat() raises: the file could not be read.  A warning
\* is printed.
HashFailed(p) ==
    /\ scan_pc = "hashing"
    /\ p \in futs \cap hashed
    /\ dropped' = dropped \cup {[path |-> p, error |-> <<"OSError">>]}
    /\ futs' = futs \ {p}
    /\ UNCHANGED <<scan_pc, hashed, results, total, exceptScan>>

\* _detect_context(p) raises.  A warning is printed.
ContextFailed(p) ==
    /\ scan_pc = "hashing"
    /\ p \in futs \cap hashed
    /\ detect_context(p, files) \notin ContextTags
    /\ dropped' = dropped \cup {[path |-> p, error |-> detect_context(p, files)]}
    /\ futs' = futs \ {p}
    /\ UNCHANGED <<scan_pc, hashed, results, total, exceptScan>>

\* return results, dur, len(files)
ReturnResults ==
    /\ scan_pc = "hashing"
    /\ futs = {}
    /\ scan_pc' = "done"
    /\ UNCHANGED <<futs, hashed, results, dropped, total, exceptScan>>

\* cmd_scan: db.upsert_files(records)
StoreRecords ==
    /\ scan_pc = "done"
    /\ store' = [store EXCEPT !.rows = upsert_files(@, results)]
    /\ last_rec' = LastRecords(last_rec, results)
    /\ scan_pc' = "stored"
    /\ UNCHANGED <<applierVars, db_pc, current, version, mig_log, store0, planVars,
                   keyVars, verifyVars, fastVars, rerunVars, pipeVars, futs, hashed, results, dropped, total>>

\* cmd_scan opens the store (on a new file here), runs threaded_hash and
\* stores the records.
NextScan ==
    \/ Open
    \/ ApplyMigration
    \/ CommitMigration
    \/ Opened
    \/ StartScan
    \/ \E p \in ScanPaths : WorkerHash(p)
    \/ \E p \in ScanPaths : RecordFile(p)
    \/ \E p \in ScanPaths : HashFailed(p)
    \/ \E p \in ScanPaths : ContextFailed(p)
    \/ ReturnResults
    \/ StoreRecords

SpecScan == InitScan /\ [][NextScan]_vars

(***************************************************************************)
(* cmd_verify (src/cli.py): the audit of a checkpoint against the files    *)
(* on disk, some time after an apply run.                                  *)
(***************************************************************************)
\* Longest move log of a checkpoint handed to cmd_verify.
MaxMoves == 2

\* The entries a move log is made of: moves into the quarantine directory,
\* as apply_moves records them.
MoveUniverse ==
    { [src |-> P_f, dst |-> Q_f, size |-> 1],
      [src |-> P_ftmp, dst |-> Q_ftmp, size |-> 1],
      [src |-> P_f, dst |-> Q_f1, size |-> 2] }

RECURSIVE SumSizes(_)
SumSizes(log) == IF log = <<>> THEN 0 ELSE log[1].size + SumSizes(Tail(log))

\* The checkpoint files cmd_verify may find: none, the manifest of a dry
\* run or of a forced run, and a JSON object without a "moves" key.
Checkpoints ==
    {<<>>, <<[dry_run |-> FALSE]>>, <<Manifest(TRUE, 1, <<>>, 0, 0, 0)>>}
    \cup {<<Manifest(FALSE, Len(log), log, 0, 0, SumSizes(log))>> :
            log \in SeqsUpTo(MoveUniverse, MaxMoves)}

\* The files on disk when cmd_verify runs.
VerifyFiles ==
    UNION {[D -> {<<1>>}] : D \in SUBSET {P_f, Q_f, Q_ftmp, Q_f1}}

\* manifest.get("moves", [])
MovesOf(manifest) == IF "moves" \in DOMAIN manifest THEN manifest.moves ELSE <<>>

\* for mv in moves: if not Path(mv["dst"]).exists(): missing.append(mv["dst"])
RECURSIVE MissingDsts(_, _)
MissingDsts(moves, fs) ==
    IF moves = <<>> THEN <<>>
    ELSE (IF Exists(fs, moves[1].dst) THEN <<>> ELSE <<moves[1].dst>>)
         \o MissingDsts(Tail(moves), fs)

\* Mutant of cmd_verify: the src of each move is looked up, not its dst.
cmd_verify_SrcChecked(cp, fs) ==
    IF cp = <<>> THEN [printed |-> <<>>, rc |-> 5]
    ELSE LET moves == MovesOf(cp[1])
             swapped == [i \in 1..Len(moves) |->
                            [src |-> moves[i].dst, dst |-> moves[i].src]]
             missing == MissingDsts(swapped, fs)
         IN [printed |-> <<[checked |-> Len(moves), missing |-> missing]>>,
             rc |-> IF missing = <<>> THEN 0 ELSE 5]

\* The report cmd_verify prints (none when there is no checkpoint file) and
\* the exit code it returns.
cmd_verify(cp, fs) ==
    IF cp = <<>> THEN [printed |-> <<>>, rc |-> 5]
    ELSE LET moves == MovesOf(cp[1])
             missing == MissingDsts(moves, fs)
         IN [printed |-> <<[checked |-> Len(moves), missing |-> missing]>>,
             rc |-> IF missing = <<>> THEN 0 ELSE 5]

InitVerify ==
    /\ \E cp \in Checkpoints, fs \in VerifyFiles : ApplierIdle(fs, cp)
    /\ StoreIdle /\ PlanIdle /\ KeysIdle /\ ScanIdle /\ FastIdle /\ RerunIdle /\ PipeIdle
    /\ vf = <<>>

CmdVerify ==
    /\ vf = <<>>
    /\ vf' = <<cmd_verify(checkpoint, files)>>
    /\ UNCHANGED exceptVerify

NextVerify == CmdVerify

SpecVerify == InitVerify /\ [][NextVerify]_vars

(***************************************************************************)
(* The pipeline: scan, plan and apply --force, run one after the other on  *)
(* the same roots, store and plan file, and then once more.  cmd_scan and  *)
(* cmd_plan are one step each; apply_moves runs phase by phase.            *)
(***************************************************************************)
\* Files under the root when the pipeline is first run.
MaxTree == 3

F_marker_c == MkPath(<<"r", "Extracted">>, <<Seg("c", <<>>), Seg("txt", <<>>)>>)

\* Paths that may hold a file when the pipeline is first run: the files of
\* archive-like directories (the files cmd_scan makes records of), a plain
\* file, the archive, and a file in a quarantine directory.
TreePaths == {F_marker, F_marker_c, F_adjacent, F_zip, F_named, F_a, F_quarantined}

\* The orders in which the records of the files can be collected.
RECURSIVE Orders(_)
Orders(S) ==
    IF S = {} THEN {<<>>}
    ELSE UNION {{<<x>> \o q : q \in Orders(S \ {x})} : x \in S}

\* The records threaded_hash collects when no job fails to read its file:
\* a file whose _detect_context raises is dropped.
ScanResults(ps, fs) ==
    LET kept == {p \in ps : detect_context(p, fs) # <<"ValueError">>}
    IN {ScanRecord(p, fs, detect_context(p, fs)) : p \in kept}

\* meta_path.with_suffix(".json.tmp"), for meta_path = folder_path / "meta.json"
MetaTmp(d) == MkPath(d, <<Seg("meta", <<>>), Seg("json", <<>>), Seg("tmp", <<>>)>>)

\* by_dir: the directories of the records.
RecordDirs(records) == {Path(records[k].path).dir : k \in DOMAIN records}

\* The meta export of cmd_scan (export_folder_meta is on by default):
\* write_folder_meta is called for each directory of by_dir, and its
\* open(tmp, "w", ..., newline="\\n") creates the file, or truncates it,
\* and raises ValueError (illegal newline value) with nothing written;
\* cmd_scan counts a meta error and goes on.
ExportMeta(fs, ds) ==
    [q \in (DOMAIN fs) \cup {MetaTmp(d) : d \in ds} |->
        IF \E d \in ds : q = MetaTmp(d) THEN EmptyContent ELSE fs[q]]

\* The rows csv.DictReader gives cmd_apply, with Path(row["src_path"]) and
\* Path(row["dst_path"]) taken as apply_moves does.
ReadPlan(csv) ==
    [i \in DOMAIN csv |->
        PlanRow(csv[i].status, csv[i].op, Path(csv[i].src_path), Path(csv[i].dst_path))]

InitPipe ==
    /\ \E D \in SUBSET TreePaths :
          /\ Cardinality(D) <= MaxTree
          /\ \E fs \in [D -> Contents] : ApplierIdle(fs, <<>>)
    /\ store = V4Store(<<>>)
    /\ db_pc = "closed"
    /\ current = 0 /\ version = 0 /\ mig_log = <<>> /\ store0 = EmptyDb
    /\ last_rec = <<>>
    /\ PlanIdle /\ KeysIdle /\ ScanIdle /\ VerifyIdle /\ FastIdle /\ RerunIdle
    /\ pipe = <<[cmd |-> "scan", run |-> 1, indexed |-> {}, sources |-> {}, first |-> <<>>,
                 deleted |-> {}]>>

\* cmd_scan: records = threaded_hash(roots, ignore); db.upsert_files(records);
\* the meta export.
PipeScan ==
    /\ pipe # <<>>
    /\ pipe[1].cmd = "scan"
    /\ \E records \in Orders(ScanResults(iter_files(files, Root, IgnorePatterns), files)) :
          /\ store' = [store EXCEPT !.rows = upsert_files(@, records)]
          /\ last_rec' = LastRecords(last_rec, records)
          /\ files' = ExportMeta(files, RecordDirs(records))
          /\ pipe' = <<[pipe[1] EXCEPT
                          !.cmd = "plan",
                          !.indexed = @ \cup {records[k].path : k \in DOMAIN records}]>>
    /\ UNCHANGED <<db_pc, current, version, mig_log, store0, dirs, rows, dry_run,
                   files0, dirs0, pc, idx, locals, applied, counters, checkpoint,
                   history, rbVars, planVars, keyVars, scanVars, verifyVars,
                   fastVars, rerunVars>>

\* cmd_plan writes the plan; cmd_apply --force reads it and calls
\* apply_moves(rows, checkpoint, dry_run=False).
PipePlan ==
    /\ pipe # <<>>
    /\ pipe[1].cmd = "plan"
    /\ LET csv == cmd_plan(store.rows, files, now)
       IN /\ plan_runs' = Append(plan_runs, [csv |-> csv, at |-> now])
          /\ rows' = ReadPlan(csv)
          /\ outcome' = [i \in DOMAIN csv |-> "pending"]
          /\ used_dst' = [i \in DOMAIN csv |-> NoPath]
          /\ pipe' = <<[pipe[1] EXCEPT
                          !.cmd = "apply",
                          !.sources = @ \cup {csv[i].src_path : i \in DOMAIN csv}]>>
    /\ dry_run' = FALSE
    /\ pc' = "row"
    /\ idx' = 1
    /\ src' = NoPath /\ dst' = NoPath /\ size' = 0 /\ content0' = EmptyContent
    /\ applied' = <<>>
    /\ attempted' = 0 /\ skipped' = 0 /\ errors' = 0 /\ bytes_moved' = 0
    /\ files0' = files /\ dirs0' = dirs
    /\ applied_row' = <<>>
    /\ warned' = {}
    /\ UNCHANGED <<files, dirs, checkpoint, stopped_at, env_changed, rbVars, now,
                   storeVars, keyVars, scanVars, verifyVars, fastVars, rerunVars>>

\* apply has returned: the three commands are run again.
PipeAgain ==
    /\ pipe # <<>>
    /\ pipe[1].cmd = "apply"
    /\ pipe[1].run = 1
    /\ pc = "done"
    /\ pipe' = <<[pipe[1] EXCEPT
                    !.cmd = "scan",
                    !.run = 2,
                    !.first = <<[statistics |-> checkpoint[1].statistics,
                                 warned |-> warned]>>]>>
    /\ UNCHANGED <<applierVars, storeVars, planVars, keyVars, scanVars, verifyVars,
                   fastVars, rerunVars>>

NextPipe ==
    \/ PipeScan
    \/ PipePlan
    \/ ApplyRow
    \/ CopyOk
    \/ CopyFail
    \/ FsyncOk
    \/ Verify
    \/ RenameOk
    \/ UnlinkOk
    \/ UnlinkFail
    \/ WriteCheckpoint
    \/ PipeAgain

SpecPipe == InitPipe /\ [][NextPipe]_vars

(***************************************************************************)
(* The pipeline on a tree that somebody else changes: between two          *)
(* commands a file is deleted by the user or by another program.           *)
(***************************************************************************)
\* Files deleted from outside over the two runs.
MaxDeletes == 1

EnvDelete ==
    /\ pipe # <<>>
    /\ pipe[1].cmd \in {"scan", "plan"}
    /\ Cardinality(pipe[1].deleted) < MaxDeletes
    /\ \E p \in DOMAIN files :
          /\ files' = Unlink(files, p)
          /\ pipe' = <<[pipe[1] EXCEPT !.deleted = @ \cup {p}]>>
    /\ UNCHANGED <<storeVars, dirs, rows, dry_run, files0, dirs0, pc, idx, locals,
                   applied, counters, checkpoint, history, rbVars, planVars, keyVars,
                   scanVars, verifyVars, fastVars, rerunVars>>

NextLife == NextPipe \/ EnvDelete

SpecLife == InitPipe /\ [][NextLife]_vars

(***************************************************************************)
(* Properties                                                              *)
(***************************************************************************)
PlannedMoves == {i \in 1..Len(rows) : ~NotPlannedMove(rows[i])}

\* p is q's name with one more " (i)" mark, in q's directory.
IsUniquifiedOf(p, q) == \E i \in 1..(Cardinality(DOMAIN files) + 2) : p = Candidate(q, i)

InMove(at) == at \in {"copy", "fsync", "verify", "rename", "unlink"}

ApplyReturned == pc = "done" /\ rb_pc = "idle" /\ ~env_changed

\* C1: after any run of apply_moves, every src of a planned move row that
\* existed before the run either is still at its place with its content, or
\* the checkpoint has an entry with that src whose dst holds that content.
NoDataLossUnderApply ==
    ApplyReturned =>
        \A i \in PlannedMoves :
            LET P == rows[i].src_path
            IN Exists(files0, P) =>
                 \/ Exists(files, P) /\ files[P] = files0[P]
                 \/ \E k \in 1..Len(checkpoint[1].moves) :
                        LET mv == checkpoint[1].moves[k]
                        IN /\ mv.src = P
                           /\ Exists(files, mv.dst)
                           /\ files[mv.dst] = files0[P]

\* C2: in every state of a move, also one the process is stopped in, the
\* content the source had when the move began is, in full, at src or at the
\* final dst.
SourceSurvivesMove ==
    (InMove(pc) \/ (pc = "stopped" /\ InMove(stopped_at))) =>
        \/ Exists(files, src) /\ files[src] = content0
        \/ Exists(files, dst) /\ files[dst] = content0

\* C3: a force apply stopped between rows after k >= 1 rows succeeded leaves
\* a checkpoint file holding exactly those k entries.
StoppedRunLeavesCheckpoint ==
    (pc = "stopped" /\ stopped_at = "row" /\ ~dry_run /\ Len(applied) >= 1) =>
        /\ checkpoint # <<>>
        /\ checkpoint[1].moves = applied

\* C4: a dry run changes no file and creates no directory other than the
\* checkpoint's.
DryRunMutatesNothing ==
    (dry_run /\ rb_pc = "idle" /\ ~env_changed) =>
        /\ files = files0
        /\ dirs \subseteq dirs0 \cup Mkdirs({}, CheckpointDir)

\* C5: a run that went through all rows has written the checkpoint, whatever
\* the rows' outcomes; a dry run's checkpoint says dry_run and has no moves.
CheckpointAlwaysWritten ==
    pc = "done" =>
        /\ checkpoint # <<>>
        /\ checkpoint[1].dry_run = dry_run
        /\ checkpoint[1].statistics.attempted = Cardinality(PlannedMoves)
        /\ dry_run => checkpoint[1].moves = <<>>

DryRunCheckpointWritten ==
    /\ pc = "done"
    /\ dry_run
    /\ \E i \in 1..Len(rows) : outcome[i] = "dry"
    /\ checkpoint # <<>>
    /\ checkpoint[1].moves = <<>>

\* C6: the number of entries of moves is the succeeded count, every row that
\* succeeded has exactly one entry, with its src and the dst its move used,
\* and no entry belongs to a row that errored or was skipped.
MovesMatchSucceeded ==
    pc = "done" =>
        LET m == checkpoint[1]
            ok == {i \in 1..Len(rows) : outcome[i] = "succeeded"}
        IN /\ Len(m.moves) = m.statistics.succeeded
           /\ Len(m.moves) = Cardinality(ok)
           /\ Len(applied_row) = Len(m.moves)
           /\ \A k \in 1..Len(m.moves) : applied_row[k] \in ok
           /\ \A i \in ok :
                 /\ Cardinality({k \in 1..Len(m.moves) : applied_row[k] = i}) = 1
                 /\ \A k \in 1..Len(m.moves) :
                       applied_row[k] = i =>
                           /\ m.moves[k].src = rows[i].src_path
                           /\ m.moves[k].dst = used_dst[i]

MixedOutcomesRecorded ==
    /\ pc = "done"
    /\ \E i, j \in 1..Len(rows) :
          /\ outcome[i] = "succeeded"
          /\ outcome[j] \in {"error", "skipped"}
          /\ used_dst[i] # rows[i].dst_path

\* The entry a step has just appended to applied.
Recorded(e) == Len(applied') = Len(applied) + 1 /\ e = applied'[Len(applied')]

\* C7 as stated: when an entry is recorded, the file at its dst exists and
\* the file at its src has been removed.
RecordedMoveHasSrcRemoved ==
    [][\A e \in {applied'[k] : k \in 1..Len(applied')} :
          Recorded(e) => Exists(files', e.dst) /\ ~Exists(files', e.src)]_vars

\* C7 as amended: when an entry is recorded, the file at its dst exists, and
\* the file at its src has been removed unless unlinking it raised, in which
\* case the source-deletion warning was printed for the row.
RecordedMoveHasDstAndSrcRemovedOrWarned ==
    [][\A e \in {applied'[k] : k \in 1..Len(applied')} :
          Recorded(e) =>
              /\ Exists(files', e.dst)
              /\ e.src = rows[idx].src_path
              /\ Exists(files', e.src) => idx \in warned']_vars

RecordedWithSourceLeft ==
    /\ pc = "row"
    /\ Len(applied) >= 1
    /\ applied_row[Len(applied)] \in warned
    /\ Exists(files, applied[Len(applied)].src)
    /\ Exists(files, applied[Len(applied)].dst)

NoRollbackFault == \A n \in 1..Len(rb_log) : ~rb_log[n].failed

RollbackReturned == pc = "done" /\ rb_pc = "done" /\ ~dry_run /\ ~env_changed

\* C8: with the filesystem left alone between apply and rollback, rollback
\* moves the file of every entry of the checkpoint to a path in its src's
\* directory (the src's name or a uniquified one), and afterwards no dst of
\* the checkpoint exists.
RollbackRestoresEveryMove ==
    (RollbackReturned /\ NoRollbackFault) =>
        \A k \in 1..Len(rb_moves) :
            /\ \E n \in 1..Len(rb_log) :
                  /\ rb_log[n].entry = k
                  /\ rb_log[n].moved
                  /\ rb_log[n].to.dir = rb_moves[k].src.dir
                  /\ \/ rb_log[n].to = rb_moves[k].src
                     \/ IsUniquifiedOf(rb_log[n].to, rb_moves[k].src)
            /\ ~Exists(files, rb_moves[k].dst)

\* C9: after a force apply in which every row succeeded and every source
\* unlink succeeded, rollback puts every moved file back at its original
\* path with its original content (the files are those from before the
\* apply), restored is the number of moves and errors is 0.
ApplyRollbackRoundTrip ==
    ( /\ RollbackReturned /\ NoRollbackFault
      /\ \A i \in PlannedMoves : outcome[i] = "succeeded"
      /\ warned = {} ) =>
        /\ files = files0
        /\ restored = Len(rb_moves)
        /\ rb_errors = 0

\* C10: an entry whose restoration target exists when rollback gets to it
\* is moved to a uniquified path that did not exist, and the file at the
\* target keeps its content (as does every other file but the moved one).
RollbackNeverOverwrites ==
    [][(rb_pc = "loop" /\ rb_i >= 1 /\ rb_i' = rb_i - 1) =>
          LET mv == rb_moves[rb_i]
              l  == rb_log'[Len(rb_log')]
          IN Exists(files, mv.src) =>
               /\ \A p \in (DOMAIN files) \ {mv.dst} :
                     Exists(files', p) /\ files'[p] = files[p]
               /\ (Exists(files, mv.dst) /\ ~l.failed) =>
                     \E p \in (DOMAIN files') \ (DOMAIN files) :
                        /\ IsUniquifiedOf(p, mv.src)
                        /\ files'[p] = files[mv.dst]
                        /\ ~Exists(files', mv.dst)]_vars

RestoredBesideNewFile ==
    /\ rb_pc = "done"
    /\ env_changed
    /\ \E n \in 1..Len(rb_log) :
          LET mv == rb_moves[rb_log[n].entry]
          IN /\ rb_log[n].moved
             /\ rb_log[n].to # mv.src
             /\ Exists(files, mv.src)
             /\ Exists(files, rb_log[n].to)
             /\ files[mv.src] # files[rb_log[n].to]

(***************************************************************************)
(* Properties of the Store                                                 *)
(***************************************************************************)
\* The rows of files whose path is one of the given paths.
RowsAt(paths) ==
    {store.rows[i] : i \in {j \in DOMAIN store.rows :
                               \E k \in 1..Len(paths) : store.rows[j].path = paths[k]}}

\* C11: every group get_duplicates returns has at least two paths, each the
\* path of a record that has the group's sha256 and the group's context_tag;
\* no two records of a group have the same sha256 and different context_tags.
DuplicateGroupsShareHashAndContext ==
    db_pc = "open" =>
        \A n \in 1..Len(get_duplicates(store.rows)) :
            LET g     == get_duplicates(store.rows)[n]
                paths == Split(g[3], "|")
            IN /\ Len(paths) >= 2
               /\ \A k \in 1..Len(paths) :
                     \E r \in RowsAt(paths) :
                        r.path = paths[k] /\ r.sha256 = g[1] /\ r.context_tag = g[2]
               /\ \A r1, r2 \in RowsAt(paths) :
                     ~(r1.sha256 = r2.sha256 /\ r1.context_tag # r2.context_tag)

SameHashSplitByContext ==
    /\ db_pc = "open"
    /\ Len(get_duplicates(store.rows)) = 1
    /\ \E i, j, k \in DOMAIN store.rows :
          /\ i # j
          /\ GroupKey(store.rows[i]) = GroupKey(store.rows[j])
          /\ store.rows[k].sha256 = store.rows[i].sha256
          /\ store.rows[k].context_tag # store.rows[i].context_tag

\* The loop of _migrate has gone through every migration.
MigrateLoopDone == db_pc = "migrate" /\ version > LastMigration

\* The open found a version-0 store: table files with the four base columns
\* and no version table (a missing file is one after BASE_SCHEMA).
OpenedVersion0 ==
    /\ BASE_SCHEMA(store0).columns = BaseColumns
    /\ "schema_version" \notin store0.tables

\* Every record of the store before the open is there, in its place, with
\* its values and with mime and context_tag at their defaults.
RecordsKeptWithDefaults ==
    /\ Len(store.rows) = Len(store0.rows)
    /\ \A i \in DOMAIN store0.rows :
          /\ \A c \in BaseColumns : store.rows[i][c] = store0.rows[i][c]
          /\ store.rows[i].mime = DefaultMime
          /\ store.rows[i].context_tag = DefaultContextTag

WithoutTs(row) == [f \in (DOMAIN row) \ {"ts"} |-> row[f]]

PlanSources ==
    UNION {{Split(store.rows[i].path, "|")[k] :
               k \in 1..Len(Split(store.rows[i].path, "|"))} : i \in DOMAIN store.rows}

\* The rows of all the plans written.
WrittenRows ==
    UNION {{plan_runs[n].csv[k] : k \in 1..Len(plan_runs[n].csv)} : n \in 1..Len(plan_runs)}

\* C13: on an unchanged filesystem ensure_unique(ensure_unique(P)) is
\* ensure_unique(P), for every destination cmd_plan asks about, every file
\* on disk and every dst_path it has written.
EnsureUniqueIdempotent ==
    /\ \A d \in {DupDst(Path(s)) : s \in PlanSources} \cup DOMAIN files :
          ensure_unique(ensure_unique(d, files), files) = ensure_unique(d, files)
    /\ \A row \in WrittenRows :
          str(ensure_unique(Path(row.dst_path), files)) = row.dst_path

SecondCandidateKept ==
    \E row \in WrittenRows :
       /\ Exists(files, DupDst(Path(row.src_path)))
       /\ Exists(files, Candidate(DupDst(Path(row.src_path)), 1))
       /\ row.dst_path = str(Candidate(DupDst(Path(row.src_path)), 2))

\* C14: no two rows of one plan have the same dst_path.
PlanDstsPairwiseDistinct ==
    \A n \in 1..Len(plan_runs) :
        \A i, j \in 1..Len(plan_runs[n].csv) :
            i # j => plan_runs[n].csv[i].dst_path # plan_runs[n].csv[j].dst_path

\* C15: every dst_path of a plan does not exist when the plan is written;
\* it is dirname(src)/.deduplab_duplicates/basename(src) when that path is
\* free, and else that name with " (i)" before the extension for the
\* smallest i >= 1 whose path does not exist.
PlanDstIsFirstFreeName ==
    \A row \in WrittenRows :
        LET srcp == Path(row.src_path)
            base == MkPath(srcp.dir \o <<".deduplab_duplicates">>, srcp.name)
        IN /\ ~Exists(files, Path(row.dst_path))
           /\ ~Exists(files, base) => row.dst_path = str(base)
           /\ Exists(files, base) =>
                 \E i \in 1..Len(MarkToks) :
                    /\ row.dst_path = str(Candidate(base, i))
                    /\ \A j \in 1..(i - 1) : Exists(files, Candidate(base, j))

FreeAndTakenDstPlanned ==
    /\ Len(plan_runs) >= 1
    /\ \E r1, r2 \in WrittenRows :
          /\ r1.dst_path = str(DupDst(Path(r1.src_path)))
          /\ Exists(files, DupDst(Path(r2.src_path)))
          /\ r2.dst_path = str(Candidate(DupDst(Path(r2.src_path)), 1))

\* The smallest of a set of strs.
MinStr(S) == CHOOSE m \in S : \A o \in S \ {m} : StrLess(m, o)

\* C16: for every duplicate group of the store, a plan has exactly one row
\* for each member other than the lexicographically smallest path, no row
\* for that path, and so (group size - 1) rows of the group.
OneRowPerNonKeeper ==
    \A n \in 1..Len(plan_runs) :
        \A key \in {GroupKey(store.rows[i]) : i \in DOMAIN store.rows} :
            LET members == {store.rows[i].path :
                               i \in {j \in DOMAIN store.rows : GroupKey(store.rows[j]) = key}}
                csv     == plan_runs[n].csv
                of_grp  == {k \in 1..Len(csv) : csv[k].content_id = content_id(key[1], key[2])}
            IN Cardinality(members) >= 2 =>
                 /\ \A m \in members \ {MinStr(members)} :
                       Cardinality({k \in of_grp : csv[k].src_path = m}) = 1
                 /\ \A k \in of_grp : csv[k].src_path # MinStr(members)
                 /\ Cardinality(of_grp) = Cardinality(members) - 1

(***************************************************************************)
(* Properties of the rollback keys                                         *)
(***************************************************************************)
DigitVal(tok) == (CHOOSE d \in 1..Len(DigitToks) : DigitToks[d] = tok) - 1

\* The number a sequence of decimal digits writes.
RECURSIVE DigitsValue(_)
DigitsValue(ds) ==
    IF ds = <<>> THEN 0
    ELSE DigitsValue(SubSeq(ds, 1, Len(ds) - 1)) * 10 + DigitVal(ds[Len(ds)])

\* key is "rbk:" followed by decimal digits.
IsRollbackKey(key) ==
    /\ Len(key) >= 2
    /\ key[1] = "rbk:"
    /\ \A k \in 2..Len(key) : \E d \in 1..Len(DigitToks) : key[k] = DigitToks[d]

\* The keys are pairwise distinct, and the i-th row's key writes the
\* ordinal of the row, counted from 0 at the first row of the plan.
KeysCountRows ==
    /\ \A i \in 1..Len(plan_keys) :
          /\ IsRollbackKey(plan_keys[i])
          /\ DigitsValue(Tail(plan_keys[i])) = rbk0 + i - 1
    /\ \A i, j \in 1..Len(plan_keys) : i # j => plan_keys[i] # plan_keys[j]
    /\ (rbk0 = 0 /\ plan_keys # <<>>) =>
          plan_keys[1] = <<"rbk:", "0", "0", "0", "0", "0", "0">>

\* C17 as stated: the keys are pairwise distinct, go up by one from
\* rbk:000000 in row order, and each is "rbk:" and exactly six digits.
RollbackKeysHaveSixDigits ==
    /\ KeysCountRows
    /\ \A i \in 1..Len(plan_keys) : Len(plan_keys[i]) = 1 + 6

\* C17 as amended: the keys are pairwise distinct, go up by one from
\* rbk:000000 in row order, and each is "rbk:" and the row's ordinal in
\* decimal, zero-padded to six digits: exactly six digits for the first
\* 1,000,000 rows, and as many as the ordinal has from then on.
RollbackKeysHaveSixDigitsOrMore ==
    /\ KeysCountRows
    /\ \A i \in 1..Len(plan_keys) :
          LET n == rbk0 + i - 1
          IN IF n < 1000000 THEN Len(plan_keys[i]) = 1 + 6
             ELSE /\ Len(plan_keys[i]) > 1 + 6
                  /\ plan_keys[i][2] # "0"

SevenDigitKeyWritten ==
    \E i, j \in 1..Len(plan_keys) :
       /\ Len(plan_keys[i]) = 1 + 6
       /\ Len(plan_keys[j]) = 1 + 7
       /\ j = i + 1

(***************************************************************************)
(* Properties of cmd_verify                                                *)
(***************************************************************************)
\* The recorded moves of the checkpoint whose dst does not exist.
MovesWithoutDst ==
    {i \in 1..Len(MovesOf(checkpoint[1])) :
        ~Exists(files, MovesOf(checkpoint[1])[i].dst)}

\* C18: when cmd_verify has audited a checkpoint, checked is the number of
\* moves in the checkpoint, missing lists the dst of exactly the recorded
\* moves whose dst does not exist (one entry per such move, no other path),
\* and the exit code is not 0 if and only if missing is not empty.
VerifyReportsMissingDsts ==
    (vf # <<>> /\ checkpoint # <<>>) =>
        /\ vf[1].printed # <<>>
        /\ LET report == vf[1].printed[1]
               moves == MovesOf(checkpoint[1])
           IN /\ report.checked = Len(moves)
              /\ Len(report.missing) = Cardinality(MovesWithoutDst)
              /\ \A i \in 1..Len(moves) :
                    (i \in MovesWithoutDst) <=>
                        (\E k \in 1..Len(report.missing) :
                            report.missing[k] = moves[i].dst)
              /\ \A k \in 1..Len(report.missing) :
                    \E i \in MovesWithoutDst : report.missing[k] = moves[i].dst
              /\ (vf[1].rc # 0) <=> (report.missing # <<>>)

\* An audit of two moves, of which one dst is there and one is gone.
VerifiedOneMissingOnePresent ==
    /\ vf # <<>>
    /\ checkpoint # <<>>
    /\ Len(MovesOf(checkpoint[1])) = 2
    /\ Cardinality(MovesWithoutDst) = 1
    /\ vf[1].rc = 5

(***************************************************************************)
(* Properties of the scanner                                               *)
(***************************************************************************)
\* The directory d satisfies one of the three archive rules: its name holds
\* an extraction marker, an archive file of its name lies next to it, or
\* its name holds an archive extension written with "_" or without the dot.
ArchiveRule(d, fs) ==
    LET name == Lower(Codes[d[Len(d)]])
    IN \/ \E marker \in EXTRACTION_MARKERS : Contains(name, Codes[marker])
       \/ \E ext \in ARCHIVE_EXTENSIONS : Exists(fs, WithName(d, ext))
       \/ \E ext \in ARCHIVE_EXTENSIONS :
             \/ Contains(name, Flat(Replace(ext, ".", "_")))
             \/ Contains(name, Flat(Remove(ext, ".")))

HasArchiveAncestor(p, fs) ==
    \E k \in 1..Len(p.dir) : ArchiveRule(SubSeq(p.dir, 1, k), fs)

ExpectedTag(p, fs) ==
    IF HasArchiveAncestor(p, fs) THEN <<"archived">> ELSE <<"unarchived">>

\* The files the scan found and could read.
ReadableScanned ==
    {p \in iter_files(files, Root, IgnorePatterns) :
        [path |-> p, error |-> <<"OSError">>] \notin dropped}

\* C19: when the scan has returned, every file it found and could read has
\* a record, tagged 'archived' when some ancestor directory satisfies one
\* of the three archive rules and 'unarchived' otherwise; the classifier
\* has raised for no file.
ScanTagsEveryReadableFile ==
    scan_pc = "done" =>
        /\ \A p \in ReadableScanned :
              \E i \in 1..Len(results) :
                 /\ results[i].path = str(p)
                 /\ results[i].context_tag = ExpectedTag(p, files)
        /\ \A e \in dropped : e.error = <<"OSError">>

(***************************************************************************)
(* Properties of a failed open of the Store                                *)
(***************************************************************************)
\* What migration u adds is in the file st and was not in the file st0
\* the open began with (after the base schema, which is not a migration).
MigrationVisible(u, st, st0) ==
    CASE u = 1 -> "mime" \in st.columns \ BASE_SCHEMA(st0).columns
      [] u = 2 -> "context_tag" \in st.columns \ BASE_SCHEMA(st0).columns
      [] u = 3 -> "idx_files_hash_ctx" \in st.indexes \ BASE_SCHEMA(st0).indexes
      [] u = 4 -> "schema_version" \in st.tables \ BASE_SCHEMA(st0).tables

\* C21: when a migration has failed during an open, the recorded version
\* is the one the file had before the open, and nothing a migration of
\* this open added is in the file unless the recorded version covers that
\* migration.
FailedOpenLeavesPriorVersion ==
    db_pc = "failed" =>
        /\ get_schema_version(store) = get_schema_version(BASE_SCHEMA(store0))
        /\ \A u \in 1..LastMigration :
              MigrationVisible(u, store, store0) => get_schema_version(store) >= u

(***************************************************************************)
(* Properties of the two appliers                                          *)
(***************************************************************************)
\* The src and dst of the entries of a move log.
SrcDst(log) == [k \in 1..Len(log) |-> <<log[k].src, log[k].dst>>]

\* C22: when both appliers have run on the same plan and filesystem, they
\* leave the same files, return the same statistics, with bytes_moved the
\* sum of the sizes of the moved files, and their checkpoints record the
\* same moves.
FastApplierIndistinguishable ==
    (pc = "done" /\ fast # <<>>) =>
        /\ fast[1].files = files
        /\ fast[1].statistics = checkpoint[1].statistics
        /\ fast[1].statistics.bytes_moved = SumSizes(checkpoint[1].moves)
        /\ SrcDst(fast[1].checkpoint.moves) = SrcDst(checkpoint[1].moves)

(***************************************************************************)
(* Properties of threaded_hash and cmd_scan                                *)
(***************************************************************************)
\* The files iter_files found.
Discovered == iter_files(files, Root, IgnorePatterns)

\* The files whose processing raised.
FailedFiles == {e.path : e \in dropped}

\* C23: when threaded_hash has returned, the result holds exactly one
\* record for each discovered file whose processing did not raise, no
\* record for a file whose processing raised and no record of anything
\* else, and total counts every discovered file.
FailedFilesDroppedOthersRecorded ==
    scan_pc = "done" =>
        /\ total = Cardinality(Discovered)
        /\ \A p \in Discovered :
              Cardinality({i \in 1..Len(results) : results[i].path = str(p)})
                  = IF p \in FailedFiles THEN 0 ELSE 1
        /\ \A i \in 1..Len(results) : \E p \in Discovered : results[i].path = str(p)
        /\ FailedFiles \subseteq Discovered

\* A scan that returned a record, with one file that could not be read and
\* one for which the context detection raised.
ScanReturnedWithFailures ==
    /\ scan_pc = "done"
    /\ Len(results) = 1
    /\ \E e \in dropped : e.error = <<"OSError">>
    /\ \E e \in dropped : e.error = <<"ValueError">>

\* A submitted hashing job has not completed.
JobOutstanding == scan_pc = "hashing" /\ futs \ hashed # {}

\* C24: a step in which a worker thread completes a job changes neither
\* the Store nor the results list; the Store is never changed while a
\* hashing job is outstanding, and its records are changed only in the step
\* of cmd_scan that follows the return of threaded_hash, when every job
\* has completed and has been collected.
StoreWrittenAfterJobsByOrchestrator ==
    [][/\ hashed' # hashed => (store' = store /\ results' = results)
       /\ store' # store => ~JobOutstanding
       /\ store'.rows # store.rows => (scan_pc = "done" /\ futs = {})]_vars

\* The two records of a scan are in the Store.
ScanStoredTwoRecords ==
    /\ scan_pc = "stored"
    /\ Len(results) = 2
    /\ Len(store.rows) = 2

(***************************************************************************)
(* Properties of upsert_files                                              *)
(***************************************************************************)
\* The rows of the Store for path p.
RowsOf(p) == {i \in DOMAIN store.rows : store.rows[i].path = p}

\* C25: the Store holds at most one record per path and, for a path that
\* was upserted, the record is the last one upsert_files was given for it;
\* and a call of upsert_files changes no record of a path that is not in
\* its batch (a record that changes, or is new, is the last one given for
\* its path by that call or before).
StoreHoldsLastUpsertPerPath ==
    /\ [](\A p \in StorePaths : Cardinality(RowsOf(p)) <= 1)
    /\ [](\A p \in DOMAIN last_rec :
             \E i \in DOMAIN store.rows : store.rows[i] = last_rec[p])
    /\ [][db_pc = "open" =>
            /\ \A i \in DOMAIN store.rows :
                  store'.rows[i] # store.rows[i] =>
                     /\ store.rows[i].path \in DOMAIN last_rec'
                     /\ last_rec'[store.rows[i].path] # store.rows[i]
            /\ Len(store'.rows) >= Len(store.rows)]_vars

\* A store of two records, of which one was replaced by an upsert and the
\* other has never been in a batch.
ReplacedOneLeftOther ==
    /\ db_pc = "open"
    /\ Len(store.rows) = 2
    /\ \E i, j \in DOMAIN store.rows :
          /\ store.rows[i].path = S_a
          /\ S_a \in DOMAIN last_rec
          /\ store.rows[i].sha256 = <<"h2">>
          /\ store.rows[j].path = S_f
          /\ S_f \notin DOMAIN last_rec

(***************************************************************************)
(* Properties of apply_moves on hand-written and repeated plans            *)
(***************************************************************************)
\* Row i is a planned move whose dst_path is its src_path.
SelfMoveRow(i) ==
    /\ ~NotPlannedMove(rows[i])
    /\ rows[i].dst_path = rows[i].src_path

\* C26: in a force apply, a planned move row whose dst_path equals its
\* src_path, and whose source is there when the row is reached, is counted
\* as an error, and when the loop goes on to the next row the file at src
\* is in place with the content it had.
SelfMoveCountedAsErrorFileKept ==
    \A i \in DOMAIN rows :
       (~dry_run /\ SelfMoveRow(i) /\ outcome[i] \notin {"pending", "skipped"}) =>
          /\ outcome[i] = "error"
          /\ (pc = "row" /\ idx = i + 1) =>
                /\ Exists(files, rows[i].src_path)
                /\ files[rows[i].src_path] = content0

\* apply_moves runs for the second time on the plan.
Rerunning == prev # <<>>

\* A step of the second run in which the for-loop takes up a planned move
\* row (and the process is not stopped at it).
TakesUpMoveRow ==
    /\ Rerunning
    /\ pc = "row"
    /\ idx <= Len(rows)
    /\ ~NotPlannedMove(rows[idx])
    /\ pc' # "stopped"

\* The row taken up is skipped: it is counted as skipped, nothing on disk
\* changes and nothing is appended to applied.
RowSkipped ==
    /\ outcome' = [outcome EXCEPT ![idx] = "skipped"]
    /\ skipped' = skipped + 1
    /\ idx' = idx + 1
    /\ files' = files /\ dirs' = dirs
    /\ applied' = applied

\* The row taken up is moved: copy_verify_delete is called on it.
MoveStarted == pc' = "copy" /\ src' = rows[idx].src_path

\* The second run skips the rows whose source is not there, and moves the
\* other rows.
SkipsAbsentMovesPresent ==
    [][TakesUpMoveRow =>
          IF Exists(files, rows[idx].src_path) THEN MoveStarted ELSE RowSkipped]_vars

\* Row i, which the earlier run recorded as moved, has been settled by the
\* second run.
MovedEarlierSettledNow(i) ==
    /\ Rerunning
    /\ prev[1].outcome[i] = "succeeded"
    /\ outcome[i] # "pending"

\* A move of a row other than i, in either run, had the source path of row i
\* as its destination.
RefilledByOtherRow(i) ==
    \E j \in DOMAIN rows :
       /\ j # i
       /\ rows[i].src_path \in {prev[1].used_dst[j], used_dst[j]}

FirstApplyFullySuccessful ==
    /\ pipe # <<>>
    /\ pipe[1].first # <<>>
    /\ LET st == pipe[1].first[1].statistics
       IN /\ st.succeeded = st.attempted
          /\ st.skipped = 0
          /\ st.errors = 0
    /\ pipe[1].first[1].warned = {}

\* The second apply is running or has returned.
InSecondApply == pipe # <<>> /\ pipe[1].run = 2 /\ pipe[1].cmd = "apply"

\* The path (a string) lies in a quarantine directory.
InQuarantine(s) == \E k \in DOMAIN Path(s).dir : Path(s).dir[k] = ".deduplab_duplicates"

\* C28: after scan, plan and a fully successful force apply, a second scan,
\* plan and force apply on the unchanged roots moves no file (its succeeded
\* is 0), and no file of a .deduplab_duplicates directory is ever indexed
\* or planned as a source.
SecondPipelineRunMovesNothing ==
    /\ (InSecondApply /\ FirstApplyFullySuccessful) =>
          /\ applied = <<>>
          /\ pc = "done" => checkpoint[1].statistics.succeeded = 0
    /\ pipe # <<>> => \A s \in pipe[1].indexed \cup pipe[1].sources : ~InQuarantine(s)

(***************************************************************************)
(* Properties of the order of apply_moves and rollback_from_checkpoint     *)
(***************************************************************************)
\* The rows are taken up one after the other, in the order of the plan: a
\* step settles no row but the one the loop is at, and then the loop is at
\* the next one.
RowsTakenInPlanOrder ==
    [][/\ idx' \in {idx, idx + 1}
       /\ \A i \in DOMAIN rows :
             outcome'[i] # outcome[i] =>
                (i = idx /\ idx' = idx + 1 /\ outcome[i] = "pending")]_vars

\* The k-th entry of the list is the move of row applied_row[k].
EntryOfRow(log, k) ==
    /\ log[k].src = rows[applied_row[k]].src_path
    /\ log[k].dst = used_dst[applied_row[k]]

\* The list holds the succeeded rows, each once, in the order of the plan.
SucceededRowsInPlanOrder(log) ==
    /\ Len(log) = Len(applied_row)
    /\ \A k \in DOMAIN log : EntryOfRow(log, k)
    /\ \A k, l \in DOMAIN log : k < l => applied_row[k] < applied_row[l]
    /\ {applied_row[k] : k \in DOMAIN log} = {i \in DOMAIN rows : outcome[i] = "succeeded"}

\* C29: apply_moves processes the planned move rows in the order of the
\* plan, and the moves of the checkpoint are the succeeded rows in that
\* same relative order.
CheckpointMovesInPlanOrder ==
    /\ RowsTakenInPlanOrder
    /\ [](\A i, j \in DOMAIN rows : (i < j /\ outcome[j] # "pending") => outcome[i] # "pending")
    /\ [](SucceededRowsInPlanOrder(applied))
    /\ [](checkpoint # <<>> => SucceededRowsInPlanOrder(checkpoint[1].moves))

\* A force apply of two rows with different sources has moved both and
\* written the checkpoint.
TwoRowsMovedAndRecorded ==
    /\ pc = "done"
    /\ ~dry_run
    /\ outcome = <<"succeeded", "succeeded">>
    /\ rows[1].src_path # rows[2].src_path
    /\ Len(checkpoint[1].moves) = 2

\* The entries rollback has processed so far are the last entries of
\* moves, the last one first.
WalkedInReverse ==
    /\ Len(rb_log) <= Len(rb_moves)
    /\ \A k \in DOMAIN rb_log : rb_log[k].entry = Len(rb_moves) + 1 - k

\* C30: rollback_from_checkpoint processes the moves of the checkpoint in
\* reverse of their recorded order and attempts every entry: an exception
\* on an entry increments errors, and the walk goes on to the entries
\* after it.
RollbackWalksAllInReverse ==
    /\ [](WalkedInReverse)
    /\ [](rb_pc = "done" => Len(rb_log) = Len(rb_moves))
    /\ [](rb_errors = Cardinality({k \in DOMAIN rb_log : rb_log[k].failed}))
    /\ [][rb_errors' # rb_errors =>
            /\ rb_errors' = rb_errors + 1
            /\ rb_pc' = "loop"
            /\ rb_i' = rb_i - 1]_vars

\* The rollback of a checkpoint of two moves has returned: the entry taken
\* first, which is the second move, raised, and the first move was
\* restored after it.
FailedEntryThenRestoredEntry ==
    /\ rb_pc = "done"
    /\ Len(rb_moves) = 2
    /\ rb_log[1].entry = 2 /\ rb_log[1].failed
    /\ rb_log[2].entry = 1 /\ rb_log[2].moved
    /\ rb_errors = 1 /\ restored = 1

(***************************************************************************)
(* Properties of the rows of apply_moves that are not moved                *)
(***************************************************************************)
\* The step settles the row the loop is at, a planned move whose source
\* is not there, without a move.
SettlesRowWithoutSource ==
    /\ pc = "row"
    /\ idx <= Len(rows)
    /\ ~NotPlannedMove(rows[idx])
    /\ ~Exists(files, rows[idx].src_path)
    /\ idx' = idx + 1

\* C31: for a planned move row whose src does not exist when the row is
\* processed, apply_moves increments skipped, counts no error, appends
\* nothing to the moves and changes neither a file nor a directory; the
\* row has no entry in the moves afterwards.
MissingSourceSkippedWithoutTrace ==
    /\ [][SettlesRowWithoutSource =>
            /\ skipped' = skipped + 1
            /\ errors' = errors
            /\ applied' = applied
            /\ files' = files /\ dirs' = dirs
            /\ outcome'[idx] = "skipped"]_vars
    /\ [](\A i \in DOMAIN rows :
             outcome[i] = "skipped" => \A k \in DOMAIN applied_row : applied_row[k] # i)

\* A force apply has returned with the first row skipped, its source and
\* its destination directory not there, and the second row moved.
SkippedRowBesideMovedRow ==
    /\ pc = "done"
    /\ ~dry_run
    /\ outcome = <<"skipped", "succeeded">>
    /\ checkpoint[1].statistics.skipped = 1
    /\ Len(checkpoint[1].moves) = 1
    /\ rows[1].dst_path.dir \notin dirs

(***************************************************************************)
(* Properties of the rows whose move fails                                 *)
(***************************************************************************)
InMovePhase == pc \in {"copy", "fsync", "verify", "rename"}

\* The step is the failure of the phase the move is in.
PhaseFails == InMovePhase /\ outcome'[idx] = "error"

\* C32: when the copy, fsync, verify or rename phase of a row fails in a
\* force apply, the row is counted in errors and gets no entry in the moves,
\* the temp file is gone, the source is there with the content it had, the
\* loop is at the next row, and a run that returns has settled every row.
FailedPhaseLeavesSourceAndGoesOn ==
    /\ [][PhaseFails =>
            /\ errors' = errors + 1
            /\ applied' = applied
            /\ ~Exists(files', DstTmp(dst))
            /\ Exists(files', src) /\ files'[src] = content0
            /\ pc' = "row" /\ idx' = idx + 1]_vars
    /\ [](pc = "done" => \A i \in DOMAIN rows : outcome[i] # "pending")
    /\ [](\A i \in DOMAIN rows :
             outcome[i] = "error" => \A k \in DOMAIN applied_row : applied_row[k] # i)

\* The same for the rows whose temp file is not their source.
FailedRowWithOtherTemp ==
    [][PhaseFails /\ src # DstTmp(dst) =>
            /\ errors' = errors + 1
            /\ applied' = applied
            /\ ~Exists(files', DstTmp(dst))
            /\ Exists(files', src) /\ files'[src] = content0
            /\ pc' = "row" /\ idx' = idx + 1]_vars

(***************************************************************************)
(* Properties of get_duplicates over the stores reached by upserts         *)
(***************************************************************************)
\* The rows of the store that hold the hash h and the tag c.
Holders(h, c) ==
    {i \in DOMAIN store.rows :
        store.rows[i].sha256 = h /\ store.rows[i].context_tag = c}

\* The places of the groups of (h, c) in what get_duplicates returns.
GroupsFor(h, c) ==
    {n \in 1..Len(get_duplicates(store.rows)) :
        get_duplicates(store.rows)[n][1] = h /\ get_duplicates(store.rows)[n][2] = c}

\* C33: get_duplicates returns one group for each (sha256, context_tag) held
\* by two or more records, the group's text splits into the paths of these
\* records, each once, and it returns no group for a pair held by fewer than
\* two records.
DuplicateGroupsSoundAndComplete ==
    db_pc = "open" =>
        /\ \A h \in Shas, c \in ContextTags :
              IF Cardinality(Holders(h, c)) >= 2
              THEN /\ Cardinality(GroupsFor(h, c)) = 1
                   /\ \A n \in GroupsFor(h, c) :
                         LET paths == Split(get_duplicates(store.rows)[n][3], "|")
                         IN /\ Len(paths) = Cardinality(Holders(h, c))
                            /\ {paths[k] : k \in 1..Len(paths)}
                                 = {store.rows[i].path : i \in Holders(h, c)}
              ELSE GroupsFor(h, c) = {}
        /\ \A n \in 1..Len(get_duplicates(store.rows)) :
              /\ get_duplicates(store.rows)[n][1] \in Shas
              /\ get_duplicates(store.rows)[n][2] \in ContextTags

\* An open store with three records: two hold one pair and are returned as
\* the one group, the third holds another hash and is not returned.
OneGroupAndOneLoneRecord ==
    /\ db_pc = "open"
    /\ Len(store.rows) = 3
    /\ Len(get_duplicates(store.rows)) = 1
    /\ \E i \in DOMAIN store.rows :
          /\ store.rows[i].sha256 # get_duplicates(store.rows)[1][1]
          /\ Cardinality(Holders(store.rows[i].sha256, store.rows[i].context_tag)) = 1

(***************************************************************************)
(* Properties of a move the process is stopped in                          *)
(***************************************************************************)
\* The process was stopped inside copy_verify_delete.
StoppedInMove ==
    pc = "stopped" /\ stopped_at \in {"copy", "fsync", "verify", "rename", "unlink"}

\* C34: when the process is stopped inside copy_verify_delete, no file is at
\* dst + '.tmp' of that move, unless one was there before the run and is as
\* it was.
NoTempFileAfterStop ==
    StoppedInMove =>
        \/ ~Exists(files, DstTmp(dst))
        \/ /\ Exists(files0, DstTmp(dst))
           /\ files[DstTmp(dst)] = files0[DstTmp(dst)]

(***************************************************************************)
(* Properties of the files a force apply is not asked to move              *)
(***************************************************************************)
\* The sources of the planned move rows the loop has taken up.
SourcesTakenUp ==
    {rows[i].src_path : i \in {j \in DOMAIN rows :
                                  ~NotPlannedMove(rows[j]) /\ outcome[j] # "pending"}}
    \cup (IF pc \in {"copy", "fsync", "verify", "rename", "unlink"} \/ StoppedInMove
          THEN {src} ELSE {})

\* C35: during and after a force apply every file that was there before the
\* run and is not the source of a row that was taken up is there with the
\* content it had.
OtherFilesKeepContent ==
    (~dry_run /\ rb_pc = "idle" /\ ~env_changed) =>
        \A p \in DOMAIN files0 :
            p \notin SourcesTakenUp => Exists(files, p) /\ files[p] = files0[p]

\* The temp paths of the moves that were started.
TempPathsUsed ==
    {DstTmp(used_dst[i]) : i \in {j \in DOMAIN rows : used_dst[j] # NoPath}}

\* The same for the files that are at no temp path of a move either.
FilesOffTempPathsKeepContent ==
    (~dry_run /\ rb_pc = "idle" /\ ~env_changed) =>
        \A p \in DOMAIN files0 :
            (p \notin SourcesTakenUp /\ p \notin TempPathsUsed)
                => Exists(files, p) /\ files[p] = files0[p]

(***************************************************************************)
(* Properties of the statistics of apply_moves                             *)
(***************************************************************************)
\* The step passes over the row the loop is at, which is no planned move.
PassesOverRow ==
    /\ pc = "row"
    /\ idx <= Len(rows)
    /\ NotPlannedMove(rows[idx])
    /\ idx' = idx + 1

\* C36: in a force apply, between rows and in the checkpoint, attempted is
\* the number of planned move rows taken so far, attempted = succeeded +
\* skipped + errors, and bytes_moved is the sum of the sizes of the moves;
\* a row that is no planned move changes no counter, no file and no move.
StatisticsConsistent ==
    /\ []((~dry_run /\ pc \in {"row", "done"}) =>
            /\ attempted = Cardinality({i \in PlannedMoves : i < idx})
            /\ attempted = Len(applied) + skipped + errors
            /\ bytes_moved = SumSizes(applied))
    /\ []((~dry_run /\ checkpoint # <<>>) =>
            LET st == checkpoint[1].statistics
            IN /\ st.attempted = Cardinality(PlannedMoves)
               /\ st.attempted = st.succeeded + st.skipped + st.errors
               /\ st.bytes_moved = SumSizes(checkpoint[1].moves))
    /\ [][PassesOverRow =>
            /\ counters' = counters
            /\ applied' = applied
            /\ files' = files /\ dirs' = dirs]_vars

\* A force apply has returned from a plan of a row that is no planned move
\* and a row that was moved, with the bytes of the move in the statistics.
PassedOverOneMovedOther ==
    /\ pc = "done"
    /\ ~dry_run
    /\ \E i, j \in DOMAIN rows : outcome[i] = "ignored" /\ outcome[j] = "succeeded"
    /\ checkpoint[1].statistics.attempted = 1
    /\ checkpoint[1].statistics.bytes_moved = 2

(***************************************************************************)
(* Properties of repeated opens of one store file                          *)
(***************************************************************************)
\* What migration u adds is in the file.
EffectInFile(u, st) ==
    CASE u = 1 -> "mime" \in st.columns
      [] u = 2 -> "context_tag" \in st.columns
      [] u = 3 -> "idx_files_hash_ctx" \in st.indexes
      [] u = 4 -> "schema_version" \in st.tables

\* The loop of _migrate is at a pending migration whose script raises on
\* what the file holds.
OpenFailsOnFileContent ==
    /\ db_pc = "migrate"
    /\ version <= LastMigration
    /\ version > current
    /\ MigrationRaises(version, store)

\* C37: whatever opens, failed opens, kills and closes a store file has
\* been through, no open fails on what the file holds, a migration is
\* applied only when what it adds is not in the file, an open that returns
\* leaves the file at version 4, and the recorded version never decreases.
OpenRepeatable ==
    /\ [](~OpenFailsOnFileContent)
    /\ [](db_pc = "open" => get_schema_version(store) = LastMigration)
    /\ [][get_schema_version(store') >= get_schema_version(store)]_vars
    /\ [][(db_pc = "migrate" /\ db_pc' = "record") => ~EffectInFile(version, store)]_vars

\* The same without the first part: what holds of the opens that do run.
OpensThatRunAreSound ==
    /\ [](db_pc = "open" => get_schema_version(store) = LastMigration)
    /\ [][get_schema_version(store') >= get_schema_version(store)]_vars
    /\ [][(db_pc = "migrate" /\ db_pc' = "record") => ~EffectInFile(version, store)]_vars

(***************************************************************************)
(* Properties of the plans made from a store whose files may be gone       *)
(***************************************************************************)
\* The record of the store for the path s.
RecordOf(s) == store.rows[CHOOSE i \in DOMAIN store.rows : store.rows[i].path = s]

\* keeper = paths[0] of the group the source of the row is in.
KeeperOfRow(row) ==
    sorted(PathsOf(store.rows, GroupKey(RecordOf(str(row.src_path)))))[1]

\* cmd_apply is running or has run on the plan just made.
PlanBeingApplied == pipe # <<>> /\ pipe[1].cmd = "apply"

\* C38: every move row of a plan has a keeper that is a file when the plan
\* is made, and after the force apply of the plan every content that was in
\* a file outside the quarantine directories before it is in a file outside
\* them.
KeeperExistsAndContentStaysOutside ==
    PlanBeingApplied =>
        /\ \A i \in DOMAIN rows : Exists(files0, Path(KeeperOfRow(rows[i])))
        /\ pc = "done" =>
              \A p \in DOMAIN files0 :
                 ~InQuarantine(str(p)) =>
                    \E q \in DOMAIN files :
                       /\ ~InQuarantine(str(q))
                       /\ sha256_file(files[q]) = sha256_file(files0[p])

====
